---- MODULE Spec2Model ----
(***************************************************************************)
(* Data Dragon synchronisation backend (lol-ext): the version ledger       *)
(* (game_versions), the champion and item reconcilers of                   *)
(* DataDragonManager, the recipe graph builder of ItemRepository and the   *)
(* sync triggers (REST endpoints, background tasks, scheduler).            *)
(*                                                                         *)
(* Versions are modelled as the numbers 1..MaxVersion (the code compares   *)
(* version strings for equality only); 0 stands for None.                  *)
(***************************************************************************)
EXTENDS Integers, Sequences, FiniteSets, TLC

\* ------------------------------------------------------------------------
\* Bounds
\* ------------------------------------------------------------------------
MaxVersion == 2
MaxCalls == 3
NItems == 3
NChampions == 3
NPaths == 1
MaxSlots == 2
MaxTags == 2
NRunes == 2
MaxJobs == 2
MaxFrom == 2
MaxInto == 1
MaxRuns == 2
NGraphItems == 4
MaxDecls == 2
InferTop == 3
MaxBulkRuns == 1
MaxTagList == 2
NSpellIds == 2
MaxSpells == 2
NSkins == 2
IntervalHours == 2
MaxClock == 4
MaxCoros == 3

Versions == 1..MaxVersion
NoVersion == 0

\* entity types of check_for_updates, in its order
EntityTypes == <<"champions", "items", "runes", "summoner-spells">>
Families == {EntityTypes[i] : i \in 1..Len(EntityTypes)}

\* the two families whose ledger rows the ledger specification exercises
LedgerFamilies == {"champions", "items"}

\* database sessions (AsyncSessionLocal() instances) that run concurrently
Sessions == {"s1", "s2"}

VARIABLES
    game_versions,   \* committed rows of table game_versions
    next_id,         \* sequence behind GameVersion.id
    sess,            \* per session: position in set_current_version and own uncommitted writes
    calls,           \* number of set_current_version calls started
    item_data,       \* upstream item.json "data": the item records in document order
    items,           \* committed rows of table items, by id
    item_tags,       \* committed rows of junction table item_tags
    tags,            \* committed rows of table tags (names)
    item_recipes,    \* committed rows of junction table item_recipes
    item_runs,       \* one record per finished item sync: version, failed entities, store
    recipe_runs,     \* one record per bulk_sync_items call
    champion_data,   \* upstream champion.json "data": the champion records in document order
    champions,       \* committed rows of table champions, by id
    champion_runs,   \* one record per finished champion sync
    champion_docs,   \* upstream detail documents of one champion, per version
    champion_store,  \* committed rows of champions, champion_tags, champion_passives, spells, champion_skins
    detail_runs,     \* one record per finished champion sync over the detail documents
    latest,          \* versions.json[0]: the latest version upstream
    jobs,            \* the sync invocations: requests, background tasks, task executions
    task_running,    \* ScheduledTask.running of the task sync_<family>
    scheduler_running, \* SchedulerService.running
    clock,           \* datetime.now(), in hours
    task,            \* the ScheduledTask sync_items: last_run, enabled, running, error
    coros,           \* the _execute_task coroutines of the task, in order of creation
    task_log,        \* the executions of task.func that ended, in order
    rune_data,       \* upstream runesReforged.json of each version
    rune_paths,      \* committed rows of table rune_paths, by id
    rune_slots,      \* committed rows of table rune_slots
    runes,           \* committed rows of table runes, by id
    next_slot_id,    \* the id sequence of rune_slots
    rune_runs,       \* one record per rune sync attempt
    validation,      \* the last report of the Validation Reporter
    tag_sync,        \* the champion and the item sync at their get_or_create_tag calls
    component_syncs  \* one record per missing-components sync that ended

ledgerVars == <<game_versions, next_id, sess, calls>>
itemVars == <<item_data, items, item_tags, tags, item_recipes, item_runs,
              recipe_runs>>
championVars == <<champion_data, champions, champion_runs,
                  champion_docs, champion_store, detail_runs>>
clockVars == <<clock, task, coros, task_log>>
triggerVars == <<latest, jobs, task_running, scheduler_running, clock, task, coros,
                 task_log>>
runeVars == <<rune_data, rune_paths, rune_slots, runes, next_slot_id, rune_runs,
              validation>>
tagVars == <<tag_sync, component_syncs>>

vars == <<game_versions, next_id, sess, calls,
          item_data, items, item_tags, tags, item_recipes, item_runs, recipe_runs,
          champion_data, champions, champion_runs,
          champion_docs, champion_store, detail_runs,
          latest, jobs, task_running, scheduler_running, clock, task, coros, task_log,
          rune_data, rune_paths, rune_slots, runes, next_slot_id, rune_runs,
          validation, tag_sync, component_syncs>>

\* ------------------------------------------------------------------------
\* Version ledger: rows, views and the statements of set_current_version
\* ------------------------------------------------------------------------
GameVersion(id, version, entity_type, is_current) ==
    [id |-> id, version |-> version, entity_type |-> entity_type, is_current |-> is_current]

IdleSession ==
    [pc |-> "idle", entity_type |-> "champions", version |-> NoVersion,
     snap |-> {}, upd |-> <<>>, ins |-> {}, row |-> 0]

\* a row as one session sees it: the committed row with the session's own
\* uncommitted UPDATE applied (READ COMMITTED: own writes are visible)
OwnRow(S, r) ==
    IF r.id \in DOMAIN S.upd THEN [r EXCEPT !.is_current = S.upd[r.id]] ELSE r

\* every row a statement of session S sees: committed rows and own inserts
SessionRows(committed, S) == {OwnRow(S, r) : r \in committed} \cup S.ins

\* rows with an uncommitted UPDATE of another session hold that session's row lock
LockedByOther(s, id) == \E t \in Sessions \ {s} : id \in DOMAIN sess[t].upd

\* select(GameVersion.version).where(entity_type).where(is_current) ... first():
\* no ORDER BY, so any matching row can be the first one
CurrentVersions(rows, entity_type) ==
    {r.version : r \in {x \in rows : x.entity_type = entity_type /\ x.is_current}}

get_current_db_version(rows, entity_type) ==
    IF CurrentVersions(rows, entity_type) = {} THEN {NoVersion}
    ELSE CurrentVersions(rows, entity_type)

\* UPDATE game_versions SET is_current = false WHERE entity_type = .. AND is_current
UnsetCurrent(rows, entity_type) ==
    {IF r.entity_type = entity_type /\ r.is_current
        THEN [r EXCEPT !.is_current = FALSE] ELSE r : r \in rows}

\* select(GameVersion).where(entity_type).where(version)
VersionRows(rows, version, entity_type) ==
    {r \in rows : r.entity_type = entity_type /\ r.version = version}

\* UniqueConstraint('version', 'entity_type'): an INSERT of a pair that is
\* already stored raises IntegrityError
UniqueViolation(rows, version, entity_type) ==
    VersionRows(rows, version, entity_type) # {}

\* set_current_version run without interleaving on the rows of one session:
\* the rows after it (the INSERT branch is taken only when no row of the pair
\* exists, so the unique constraint cannot be violated here)
set_current_version(rows, id, version, entity_type) ==
    LET unset == UnsetCurrent(rows, entity_type)
        found == VersionRows(unset, version, entity_type)
    IN  IF found # {}
        THEN LET row == CHOOSE r \in found : TRUE
             IN  {IF r.id = row.id THEN [r EXCEPT !.is_current = TRUE] ELSE r : r \in unset}
        ELSE unset \cup {GameVersion(id, version, entity_type, TRUE)}

\* the GameVersion.id sequence after set_current_version: advanced by an INSERT
NextIdAfter(rows, id, version, entity_type) ==
    IF VersionRows(rows, version, entity_type) = {} THEN id + 1 ELSE id

\* ---- one sync reaching its version swap in session s ----------------------
\* update_champions / update_items: "await self.set_current_version(version, ..)"
\* with the version get_latest_version returned to this sync
BeginSetCurrent(s, entity_type, version) ==
    /\ sess[s].pc = "idle"
    /\ calls < MaxCalls
    /\ calls' = calls + 1
    /\ sess' = [sess EXCEPT ![s] = [IdleSession EXCEPT !.pc = "unset",
                                       !.entity_type = entity_type,
                                       !.version = version]]
    /\ UNCHANGED <<game_versions, next_id, itemVars, championVars, triggerVars, runeVars, tagVars>>

\* the UPDATE .. is_current = False statement takes its snapshot
UnsetSnapshot(s) ==
    /\ sess[s].pc = "unset"
    /\ sess' = [sess EXCEPT ![s].pc = "unset_apply",
                            ![s].snap = {r.id : r \in {x \in SessionRows(game_versions, sess[s]) :
                                            x.entity_type = sess[s].entity_type /\ x.is_current}}]
    /\ UNCHANGED <<game_versions, next_id, calls, itemVars, championVars, triggerVars, runeVars, tagVars>>

\* ... and updates the rows of the snapshot once no other transaction holds
\* their lock, re-checking the WHERE clause on the latest committed row
UnsetApply(s) ==
    /\ sess[s].pc = "unset_apply"
    /\ \A id \in sess[s].snap : ~LockedByOther(s, id)
    /\ LET still == {r.id : r \in {x \in SessionRows(game_versions, sess[s]) :
                                      x.id \in sess[s].snap /\ x.is_current}}
           committedIds == {r.id : r \in game_versions} \cap still
       IN  sess' = [sess EXCEPT ![s].pc = "select",
                        ![s].snap = {},
                        ![s].upd = [id \in (DOMAIN sess[s].upd) \cup committedIds |->
                                       IF id \in committedIds THEN FALSE ELSE sess[s].upd[id]],
                        ![s].ins = {IF r.id \in still THEN [r EXCEPT !.is_current = FALSE] ELSE r
                                       : r \in sess[s].ins}]
    /\ UNCHANGED <<game_versions, next_id, calls, itemVars, championVars, triggerVars, runeVars, tagVars>>

\* "Check if this version exists": result.first()
SelectVersionRow(s) ==
    /\ sess[s].pc = "select"
    /\ LET found == VersionRows(SessionRows(game_versions, sess[s]),
                                sess[s].version, sess[s].entity_type)
       IN  \/ /\ found = {}
              /\ sess' = [sess EXCEPT ![s].pc = "insert", ![s].row = 0]
           \/ \E r \in found :
                 sess' = [sess EXCEPT ![s].pc = "update", ![s].row = r.id]
    /\ UNCHANGED <<game_versions, next_id, calls, itemVars, championVars, triggerVars, runeVars, tagVars>>

\* update(GameVersion).where(GameVersion.id == version_row[0].id).values(is_current=True)
UpdateVersionRow(s) ==
    /\ sess[s].pc = "update"
    /\ ~LockedByOther(s, sess[s].row)
    /\ sess' = [sess EXCEPT ![s].pc = "returned",
                            ![s].upd = (sess[s].row :> TRUE) @@ sess[s].upd]
    /\ UNCHANGED <<game_versions, next_id, calls, itemVars, championVars, triggerVars, runeVars, tagVars>>

\* self.db.add(GameVersion(.., is_current=True)); flush(): waits for an
\* uncommitted insert of the same pair, fails on a committed one
InsertVersionRow(s) ==
    /\ sess[s].pc = "insert"
    /\ ~\E t \in Sessions \ {s} :
          UniqueViolation(sess[t].ins, sess[s].version, sess[s].entity_type)
    /\ IF UniqueViolation(game_versions, sess[s].version, sess[s].entity_type)
       THEN /\ sess' = [sess EXCEPT ![s].pc = "failed"]
            /\ UNCHANGED next_id
       ELSE /\ sess' = [sess EXCEPT ![s].pc = "returned",
                           ![s].ins = sess[s].ins \cup
                              {GameVersion(next_id, sess[s].version, sess[s].entity_type, TRUE)}]
            /\ next_id' = next_id + 1
    /\ UNCHANGED <<game_versions, calls, itemVars, championVars, triggerVars, runeVars, tagVars>>

\* await self.db.commit() after set_current_version returned
SessionCommit(s) ==
    /\ sess[s].pc = "returned"
    /\ game_versions' = SessionRows(game_versions, sess[s])
    /\ sess' = [sess EXCEPT ![s] = IdleSession]
    /\ UNCHANGED <<next_id, calls, itemVars, championVars, triggerVars, runeVars, tagVars>>

\* except Exception: await self.db.rollback(); raise
SessionRollback(s) ==
    /\ sess[s].pc = "failed"
    /\ sess' = [sess EXCEPT ![s] = IdleSession]
    /\ UNCHANGED <<game_versions, next_id, calls, itemVars, championVars, triggerVars, runeVars, tagVars>>

\* the tables of the item family before the first sync, and an empty catalog
NoItems ==
    /\ item_data = <<>>
    /\ items = <<>>
    /\ item_tags = {}
    /\ tags = {}
    /\ item_recipes = {}
    /\ item_runs = <<>>
    /\ recipe_runs = <<>>

\* the tables of the champion family before the first sync, and no catalog
NoDetails ==
    /\ champion_docs = <<>>
    /\ champion_store = <<>>
    /\ detail_runs = <<>>

NoChampions ==
    /\ champion_data = <<>>
    /\ champions = <<>>
    /\ champion_runs = <<>>
    /\ NoDetails

\* a job slot nothing was started in
IdleJob ==
    [kind |-> "none", target |-> "none", force |-> FALSE, pc |-> "idle",
     status |-> "none", latest_seen |-> NoVersion, was_current |-> FALSE,
     todo |-> <<>>, wrote |-> {}, pending |-> <<>>, plan |-> <<>>]

\* no sync was ever triggered
NoClock ==
    /\ clock = 0
    /\ task = <<>>
    /\ coros = <<>>
    /\ task_log = <<>>

NoJobs ==
    /\ NoClock
    /\ latest = 1
    /\ jobs = [j \in 1..MaxJobs |-> IdleJob]
    /\ task_running = [f \in {"champions", "items", "runes"} |-> FALSE]
    /\ scheduler_running = TRUE

\* no sync is at a get_or_create_tag call
IdleTagSync ==
    [pc |-> "idle", names |-> <<>>, created |-> {}, read |-> {}, wrote |-> {},
     failed |-> FALSE, concurrent |-> FALSE]

NoTagSync ==
    /\ tag_sync = [f \in {"champions", "items"} |-> IdleTagSync]
    /\ component_syncs = <<>>

\* the Validation Reporter has not run
NoReport == [status |-> "none"]

\* the tables of the rune family before the first sync, and no payload
NoRunes ==
    /\ rune_data = <<>>
    /\ rune_paths = <<>>
    /\ rune_slots = {}
    /\ runes = <<>>
    /\ next_slot_id = 1
    /\ rune_runs = <<>>
    /\ validation = NoReport

LedgerInit ==
    /\ game_versions = {}
    /\ next_id = 1
    /\ sess = [s \in Sessions |-> IdleSession]
    /\ calls = 0
    /\ NoItems
    /\ NoChampions
    /\ NoJobs
    /\ NoTagSync
    /\ NoRunes

LedgerNext ==
    \/ \E s \in Sessions, f \in LedgerFamilies, v \in Versions : BeginSetCurrent(s, f, v)
    \/ \E s \in Sessions : UnsetSnapshot(s)
    \/ \E s \in Sessions : UnsetApply(s)
    \/ \E s \in Sessions : SelectVersionRow(s)
    \/ \E s \in Sessions : UpdateVersionRow(s)
    \/ \E s \in Sessions : InsertVersionRow(s)
    \/ \E s \in Sessions : SessionCommit(s)
    \/ \E s \in Sessions : SessionRollback(s)

SpecLedger == LedgerInit /\ [][LedgerNext]_vars

\* ------------------------------------------------------------------------
\* Item family: upstream records, tables and DataDragonManager.update_items
\* ------------------------------------------------------------------------
ItemIds == 1..NItems

MythicGold == 2500
MythicTier == 3

\* str.lower() on the tag names the catalog uses
Lower(t) ==
    CASE t = "Legendary" -> "legendary"
      [] t = "Mythic" -> "mythic"
      [] t = "Aatrox" -> "aatrox"
      [] OTHER -> t

\* gold.total, depth and tags of an upstream record
ItemProfiles ==
    { [total |-> 400,  depth |-> 1, tags |-> <<>>],
      [total |-> 3000, depth |-> 3, tags |-> <<"Legendary">>] }

\* no "requiredChampion" in a record, NULL in column required_champion
NoChampion == "null"

\* sequences of length <= n over S ("from" and "into" are JSON arrays and may
\* name an item more than once)
SeqsUpTo(S, n) == UNION {[1..k -> S] : k \in 0..n}

ItemRecords(id) ==
    { [id |-> id, from |-> f, into |-> t,
       total |-> p.total, depth |-> p.depth, tags |-> p.tags,
       required |-> NoChampion] :
         f \in SeqsUpTo(ItemIds \ {id}, MaxFrom),
         t \in SeqsUpTo(ItemIds \ {id}, MaxInto),
         p \in ItemProfiles }

\* the elements of a list
Range(q) == {q[k] : k \in 1..Len(q)}

\* is_mythic of validate_mythic_item_build_paths on a stored item
is_mythic(row, tag_names) ==
    \/ \E t \in tag_names : Lower(t) \in {"mythic", "legendary"}
    \/ row.total_gold > MythicGold
    \/ row.tier >= MythicTier

\* the session's working copy of the item family's tables
Store(its, itags, tgs, recipes) ==
    [items |-> its, item_tags |-> itags, tags |-> tgs, item_recipes |-> recipes]

CommittedStore == Store(items, item_tags, tags, item_recipes)

\* Item.built_from / Item.builds_into: relationship over item_recipes with
\* primaryjoin id == component_id and secondaryjoin id == item_id
built_from(recipes, id) == {r.component_id : r \in {x \in recipes : x.item_id = id}}
builds_into(recipes, id) == {r.item_id : r \in {x \in recipes : x.component_id = id}}

\* a row of item_recipes
Recipe(item_id, component_id) == [item_id |-> item_id, component_id |-> component_id]

\* item_recipes.insert() / item_tags.insert() one row at a time: the composite
\* primary key (UniqueConstraint for item_tags) rejects a row that is stored
RECURSIVE InsertRows(_, _)
InsertRows(rows, new) ==
    IF new = <<>> THEN [ok |-> TRUE, rows |-> rows]
    ELSE IF Head(new) \in rows THEN [ok |-> FALSE, rows |-> rows]
    ELSE InsertRows(rows \cup {Head(new)}, Tail(new))

\* the ids of a list that "select(Item).where(Item.id == ..)" finds
Existing(its, ids) == SelectSeq(ids, LAMBDA x : x \in DOMAIN its)

\* "Add builds into relationships": item_id = current item, component_id = into_id
IntoRows(its, rec) ==
    LET ids == Existing(its, rec.into)
    IN  [k \in 1..Len(ids) |-> Recipe(rec.id, ids[k])]

\* "Add built from relationships": component_id = current item, item_id = from_id
FromRows(its, rec) ==
    LET ids == Existing(its, rec.from)
    IN  [k \in 1..Len(ids) |-> Recipe(ids[k], rec.id)]

\* "Handle required champion validation": the id of the stored champion that
\* "Champion.id.ilike(required_champion_id)" finds, None when there is none
required_champion_id(chs, rec) ==
    IF rec.required = NoChampion THEN NoChampion
    ELSE LET found == {c \in DOMAIN chs : Lower(c) = Lower(rec.required)}
         IN  IF found # {} THEN CHOOSE c \in found : TRUE ELSE NoChampion

\* a lookup that keeps the upstream name whether or not a champion matches
required_champion_kept(chs, rec) == rec.required

\* the columns update_items writes for one record
ItemRow(rec, version) ==
    [version |-> version, total_gold |-> rec.total, depth |-> rec.depth, tier |-> rec.depth,
     required_champion |-> required_champion_id(champions, rec)]

\* the columns create_or_update_item_from_api writes for one record:
\* "item.required_champion = item_data.requiredChampion"
RepositoryItemRow(rec, version) ==
    [version |-> version, total_gold |-> rec.total, depth |-> rec.depth, tier |-> rec.depth,
     required_champion |-> rec.required]

\* items.required_champion is a foreign key to champions.id
RequiredChampionStored(chs, row) ==
    row.required_champion = NoChampion \/ row.required_champion \in DOMAIN chs

\* get_or_create_tag for every tag of the record, then item_tags.insert()
TagLinks(rec) == [k \in 1..Len(rec.tags) |-> <<rec.id, rec.tags[k]>>]

\* the body of the per-item try block of update_items on working copy T:
\* [ok, store]; ok = FALSE when a statement raised
ProcessItem(T, rec, version) ==
    LET its == (rec.id :> ItemRow(rec, version)) @@ T.items
        cleared == {l \in T.item_tags : l[1] # rec.id}
        linked == InsertRows(cleared, TagLinks(rec))
        tgs == T.tags \cup {rec.tags[k] : k \in 1..Len(rec.tags)}
        kept == {r \in T.item_recipes : r.item_id # rec.id /\ r.component_id # rec.id}
        added == InsertRows(kept, IntoRows(its, rec) \o FromRows(its, rec))
    IN  [ok |-> linked.ok /\ added.ok,
         store |-> Store(its, linked.rows, tgs, added.rows)]

\* the for loop of update_items from record i on: a record that raises is
\* logged and "await self.db.rollback()" discards the session's transaction,
\* which began at the last commit (the store named committed)
RECURSIVE ProcessItems(_, _, _, _, _, _)
ProcessItems(T, committed, data, i, version, failed) ==
    IF i > Len(data) THEN [store |-> T, failed |-> failed]
    ELSE LET res == ProcessItem(T, data[i], version)
         IN  IF res.ok
             THEN ProcessItems(res.store, committed, data, i + 1, version, failed)
             ELSE ProcessItems(committed, committed, data, i + 1, version,
                               failed \cup {data[i].id})

\* the steps update_items performs over the batch, in order: fetch_item_data,
\* the per-item loop (upsert, tag links and recipe rows of one item at a
\* time), then set_current_version and commit
UpdateItemsSteps == <<"fetch", "reconcile", "commit">>

\* update_items(version) run to its commit in a session of its own
UpdateItems(version) ==
    /\ item_data # <<>>
    /\ Len(item_runs) < MaxRuns
    /\ LET res == ProcessItems(CommittedStore, CommittedStore, item_data, 1, version, {})
       IN  /\ items' = res.store.items
           /\ item_tags' = res.store.item_tags
           /\ tags' = res.store.tags
           /\ item_recipes' = res.store.item_recipes
           /\ item_runs' = Append(item_runs,
                              [version |-> version, failed |-> res.failed,
                               before |-> CommittedStore, store |-> res.store,
                               steps |-> UpdateItemsSteps])
    /\ game_versions' = set_current_version(game_versions, next_id, version, "items")
    /\ next_id' = NextIdAfter(game_versions, next_id, version, "items")
    /\ UNCHANGED <<item_data, recipe_runs, sess, calls, championVars, triggerVars,
                   runeVars, tagVars>>

ItemInit ==
    /\ game_versions = {}
    /\ next_id = 1
    /\ sess = [s \in Sessions |-> IdleSession]
    /\ calls = 0
    /\ item_data \in {d \in [ItemIds -> UNION {ItemRecords(id) : id \in ItemIds}] :
                         \A id \in ItemIds : d[id].id = id}
    /\ items = <<>>
    /\ item_tags = {}
    /\ tags = {}
    /\ item_recipes = {}
    /\ item_runs = <<>>
    /\ recipe_runs = <<>>
    /\ NoChampions
    /\ NoJobs
    /\ NoTagSync
    /\ NoRunes

ItemNext == \E v \in Versions : UpdateItems(v)

SpecItems == ItemInit /\ [][ItemNext]_vars

\* ------------------------------------------------------------------------
\* Recipe graph builder: ItemRepository.bulk_sync_items
\* ------------------------------------------------------------------------
GraphItemIds == 1..NGraphItems

\* gold.total, depth and tags of the records of a catalog with orphan
\* mythics and candidates for them
GraphProfiles ==
    { [total |-> 400,  depth |-> 1, tags |-> <<>>],
      [total |-> 1200, depth |-> 2, tags |-> <<>>],
      [total |-> 1600, depth |-> 2, tags |-> <<>>],
      [total |-> 3000, depth |-> 3, tags |-> <<"Legendary">>] }

\* records on both sides of each of the three classification rules
ClassifyProfiles ==
    { [total |-> 400,  depth |-> 1, tags |-> <<>>],
      [total |-> 400,  depth |-> 1, tags |-> <<"Tank">>],
      [total |-> 400,  depth |-> 1, tags |-> <<"Mythic">>],
      [total |-> 2500, depth |-> 2, tags |-> <<>>],
      [total |-> 2600, depth |-> 2, tags |-> <<>>],
      [total |-> 400,  depth |-> 3, tags |-> <<>>],
      [total |-> 3000, depth |-> 3, tags |-> <<"Legendary">>] }

\* one entry of an upstream list: item names other in its "from" or "into"
Decls(ids) ==
    {[kind |-> k, item |-> i, other |-> o] :
        k \in {"from", "into"}, i \in ids, o \in ids} \ 
    {[kind |-> k, item |-> i, other |-> i] : k \in {"from", "into"}, i \in ids}

\* the subsets of S with at most k elements
RECURSIVE SubsetsUpTo(_, _)
SubsetsUpTo(S, k) ==
    IF k = 0 THEN {{}}
    ELSE LET P == SubsetsUpTo(S, k - 1)
         IN  P \cup {T \cup {x} : T \in P, x \in S}

\* a set of ids as a list in ascending order
RECURSIVE SeqOf(_)
SeqOf(S) ==
    IF S = {} THEN <<>>
    ELSE LET x == CHOOSE y \in S : \A z \in S : y <= z
         IN  <<x>> \o SeqOf(S \ {x})

\* the item.json "data" object with the given profiles and list entries
Catalog(ids, prof, D) ==
    [i \in ids |->
        [id |-> i,
         from |-> SeqOf({d.other : d \in {x \in D : x.kind = "from" /\ x.item = i}}),
         into |-> SeqOf({d.other : d \in {x \in D : x.kind = "into" /\ x.item = i}}),
         total |-> prof[i].total, depth |-> prof[i].depth, tags |-> prof[i].tags,
         required |-> NoChampion]]

\* a classification whose gold rule starts at 2500
is_mythic_data_from_2500(rec) ==
    \/ \E k \in 1..Len(rec.tags) : Lower(rec.tags[k]) \in {"mythic", "legendary"}
    \/ rec.total >= MythicGold
    \/ rec.depth >= MythicTier

\* is_mythic of process_item_recipes on an upstream record
is_mythic_data(rec) ==
    \/ \E k \in 1..Len(rec.tags) : Lower(rec.tags[k]) \in {"mythic", "legendary"}
    \/ rec.total > MythicGold
    \/ rec.depth >= MythicTier

\* is_mythic of ensure_mythic_item_build_paths on a stored item
is_mythic_ensure(row, tag_names) ==
    \/ \E t \in tag_names : Lower(t) \in {"mythic", "legendary"}
    \/ row.total_gold > MythicGold
    \/ row.tier >= MythicTier

\* the names of item.tags
StoredTagNames(T, id) == {l[2] : l \in {x \in T.item_tags : x[1] = id}}

\* create_or_update_item_from_api: the branch for an item that is not stored
\* reads "image" before any assignment to it and raises; the branch for a
\* stored item overwrites the row and replaces item.tags; the flush raises
\* when required_champion names no stored champion
create_or_update_item_from_api(T, rec, version) ==
    IF rec.id \notin DOMAIN T.items THEN [ok |-> FALSE, store |-> T]
    ELSE [ok |-> RequiredChampionStored(champions, RepositoryItemRow(rec, version)),
          store |-> Store((rec.id :> RepositoryItemRow(rec, version)) @@ T.items,
                          {l \in T.item_tags : l[1] # rec.id}
                              \cup {<<rec.id, t>> : t \in Range(rec.tags)},
                          T.tags \cup Range(rec.tags),
                          T.item_recipes)]

\* "First pass: Create or update all items" from record i on
RECURSIVE UpsertAll(_, _, _, _)
UpsertAll(T, data, i, version) ==
    IF \A j \in DOMAIN data : j < i THEN [ok |-> TRUE, store |-> T]
    ELSE IF i \notin DOMAIN data THEN UpsertAll(T, data, i + 1, version)
    ELSE LET res == create_or_update_item_from_api(T, data[i], version)
         IN  IF res.ok THEN UpsertAll(res.store, data, i + 1, version)
             ELSE [ok |-> FALSE, store |-> T]

\* a first pass that reads the "from" lists only
FirstPassFromOnly(ids, data) ==
    UNION {{Recipe(i, f) : f \in Range(data[i].from) \cap ids} : i \in ids}

\* process_item_recipes, "First pass": item.builds_into.append(into_item) and
\* item.built_from.append(from_item) for the listed items that exist
FirstPass(ids, data) ==
    UNION {{Recipe(t, i) : t \in Range(data[i].into) \cap ids}
               \cup {Recipe(i, f) : f \in Range(data[i].from) \cap ids} : i \in ids}

\* an index that maps an item to the products of its own "into" list
ForwardIndex(data, p) ==
    IF p \in DOMAIN data THEN {i \in DOMAIN data : i \in Range(data[p].into)} ELSE {}

\* builds_from_map: product id -> the items that list it in "into"
ReverseIndex(data, p) == {i \in DOMAIN data : p \in Range(data[i].into)}
builds_from_map(data) ==
    LET products == UNION {Range(data[i].into) : i \in DOMAIN data}
    IN  [p \in products |-> ReverseIndex(data, p)]

\* sorted(.., key=total_gold, reverse=True): stable, ties keep their order
RECURSIVE SortByGold(_, _)
SortByGold(seq, its) ==
    IF seq = <<>> THEN <<>>
    ELSE LET best == CHOOSE k \in 1..Len(seq) :
                        /\ \A j \in 1..Len(seq) :
                              its[seq[j]].total_gold <= its[seq[k]].total_gold
                        /\ \A j \in 1..(k - 1) :
                              its[seq[j]].total_gold < its[seq[k]].total_gold
             rest == SubSeq(seq, 1, best - 1) \o SubSeq(seq, best + 1, Len(seq))
         IN  <<seq[best]>> \o SortByGold(rest, its)

\* the first n elements of a list: seq[:n]
Take(seq, n) == SubSeq(seq, 1, IF Len(seq) < n THEN Len(seq) ELSE n)

\* process_item_recipes, "try to infer components": the three most
\* expensive items of tier <= 2, of which those cheaper than the item are
\* attached
InferByTier(ids, its, p) ==
    LET potential == SelectSeq(SeqOf(ids \ {p}), LAMBDA o : its[o].tier <= 2)
        top == Take(SortByGold(potential, its), InferTop)
    IN  SelectSeq(top, LAMBDA c : its[c].total_gold < its[p].total_gold)

\* process_item_recipes, the body of "for item_id, components in
\* builds_from_map.items()" for product p
RepairProduct(rows, ids, data, its, p, components) ==
    IF p \notin ids \/ p \notin DOMAIN data THEN rows
    ELSE LET has_from_in_api == data[p].from # <<>>
             mythic == is_mythic_data(data[p])
             fix == \/ ~has_from_in_api /\ components # {} /\ built_from(rows, p) = {}
                    \/ mythic /\ built_from(rows, p) = {}
             fixed == IF fix THEN rows \cup {Recipe(p, c) : c \in components \cap ids}
                      ELSE rows
         IN  IF mythic /\ components = {} /\ built_from(fixed, p) = {}
             THEN fixed \cup {Recipe(p, c) : c \in Range(InferByTier(ids, its, p))}
             ELSE fixed

\* process_item_recipes, "Apply fixes for items with missing built from
\* relationships" over the products in todo
RECURSIVE RepairPass(_, _, _, _, _)
RepairPass(rows, ids, data, its, todo) ==
    IF todo = {} THEN rows
    ELSE LET p == CHOOSE x \in todo : \A y \in todo : x <= y
         IN  RepairPass(RepairProduct(rows, ids, data, its, p, builds_from_map(data)[p]),
                        ids, data, its, todo \ {p})

\* process_item_recipes, "Special handling for mythic items with no build
\* path in reverse mapping": the products of todo for which the repair loop
\* enters "if is_mythic and not components and not item.built_from"
RECURSIVE RepairHeuristic(_, _, _, _, _)
RepairHeuristic(rows, ids, data, its, todo) ==
    IF todo = {} THEN {}
    ELSE LET p == CHOOSE x \in todo : \A y \in todo : x <= y
             components == builds_from_map(data)[p]
             next == RepairProduct(rows, ids, data, its, p, components)
             taken == /\ p \in ids /\ p \in DOMAIN data
                      /\ is_mythic_data(data[p])
                      /\ components = {}
                      /\ built_from(rows, p) = {}
         IN  (IF taken THEN {p} ELSE {})
                 \cup RepairHeuristic(next, ids, data, its, todo \ {p})

\* the sum of total_gold over a set of items
RECURSIVE GoldOf(_, _)
GoldOf(S, its) ==
    IF S = {} THEN 0
    ELSE LET x == CHOOSE y \in S : TRUE
         IN  its[x].total_gold + GoldOf(S \ {x}, its)

\* ensure_mythic_item_build_paths, "use basic components based on gold
\* value": append the candidates from position k on until the components
\* are worth more than 70% of the item
RECURSIVE AttachBasic(_, _, _, _, _)
AttachBasic(top, k, its, m, attached) ==
    IF k > Len(top) THEN attached
    ELSE LET now == Append(attached, top[k])
         IN  IF 10 * GoldOf(Range(now), its) > 7 * its[m].total_gold THEN now
             ELSE AttachBasic(top, k + 1, its, m, now)

\* ensure_mythic_item_build_paths, the body of "for item_id in mythic_items"
\* for item m: the branch taken and the components appended, in the order
\* of the code where it fixes one
EnsureItem(rows, ids, data, its, m) ==
    IF built_from(rows, m) # {} \/ m \notin DOMAIN data
    THEN [branch |-> "none", attached |-> <<>>]
    ELSE IF data[m].from # <<>>
    THEN [branch |-> "from", attached |-> SelectSeq(data[m].from, LAMBDA c : c \in ids)]
    ELSE LET similar == {o \in ids \ {m} :
                            its[o].tier = its[m].tier /\ built_from(rows, o) # {}}
             potential == UNION {built_from(rows, o) : o \in similar}
             basic == SelectSeq(SeqOf(ids \ {m}),
                                LAMBDA o : /\ its[o].tier <= 2
                                           /\ 2 * its[o].total_gold < its[m].total_gold)
         IN  IF similar # {}
             THEN [branch |-> "similar",
                   attached |-> SeqOf({c \in potential \cap ids :
                                          10 * its[c].total_gold < 6 * its[m].total_gold})]
             ELSE [branch |-> "basic",
                   attached |-> AttachBasic(Take(SortByGold(basic, its), InferTop),
                                            1, its, m, <<>>)]

\* ensure_mythic_item_build_paths over the mythic items from id i on:
\* the rows and, per item handled, what EnsureItem did
RECURSIVE EnsurePass(_, _, _, _, _, _, _)
EnsurePass(rows, ids, data, T, i, n, done) ==
    IF i > n THEN [rows |-> rows, done |-> done]
    ELSE IF i \notin ids \/ ~is_mythic_ensure(T.items[i], StoredTagNames(T, i))
    THEN EnsurePass(rows, ids, data, T, i + 1, n, done)
    ELSE LET e == EnsureItem(rows, ids, data, T.items, i)
         IN  EnsurePass(rows \cup {Recipe(i, c) : c \in Range(e.attached)},
                        ids, data, T, i + 1, n, (i :> e) @@ done)

\* the orders in which the elements of a list can be met
Orders(seq) == {p \in [1..Len(seq) -> Range(seq)] : Range(p) = Range(seq)}

\* the lists item.built_from can hold after ensure_mythic_item_build_paths:
\* "for component_id in potential_components" iterates a set of strings,
\* in an order that is not fixed
AttachOrders(done) ==
    {f \in [DOMAIN done -> UNION {Orders(done[m].attached) : m \in DOMAIN done}] :
        \A m \in DOMAIN done :
            IF done[m].branch = "similar" THEN f[m] \in Orders(done[m].attached)
            ELSE f[m] = done[m].attached}

\* a process_item_recipes that leaves the stored rows in place
KeptRecipes(rows) == rows

\* process_item_recipes, "Clear existing relationships":
\* delete(item_recipes) removes every row of the table
ClearedRecipes(rows) == {}

\* bulk_sync_items(items_data, version) and the commit of its caller;
\* a raise ends in the caller's rollback
BulkSyncWrites(version, ids) ==
    /\ ids # {}
    /\ Len(recipe_runs) < MaxBulkRuns
    /\ LET items_data == [i \in ids |-> item_data[i]]
           up == UpsertAll(CommittedStore, items_data, 1, version)
       IN  IF ~up.ok
           THEN /\ recipe_runs' = Append(recipe_runs,
                                    [version |-> version, raised |-> TRUE,
                                     given |-> ids, before |-> CommittedStore])
                /\ UNCHANGED <<items, item_tags, tags, item_recipes, game_versions, next_id,
                   clockVars>>
           ELSE LET T == up.store
                    first == ClearedRecipes(T.item_recipes) \cup FirstPass(ids, items_data)
                    repaired == RepairPass(first, ids, items_data, T.items,
                                           DOMAIN builds_from_map(items_data))
                    ens == EnsurePass(repaired, ids, items_data, T, 1, Len(item_data), <<>>)
                IN  /\ items' = T.items
                    /\ item_tags' = T.item_tags
                    /\ tags' = T.tags
                    /\ item_recipes' = ens.rows
                    /\ \E order \in AttachOrders(ens.done) :
                          recipe_runs' = Append(recipe_runs,
                              [version |-> version, raised |-> FALSE,
                               given |-> ids, before |-> CommittedStore,
                               first |-> first, repaired |-> repaired,
                               heuristic |-> RepairHeuristic(first, ids, items_data, T.items,
                                                 DOMAIN builds_from_map(items_data)),
                               final |-> ens.rows,
                               branch |-> [m \in DOMAIN ens.done |-> ens.done[m].branch],
                               attached |-> order,
                               mythic_data |-> {i \in ids : is_mythic_data(items_data[i])},
                               mythic_validate |->
                                   {i \in ids : is_mythic(T.items[i], StoredTagNames(T, i))},
                               mythic_ensure |->
                                   {i \in ids : is_mythic_ensure(T.items[i],
                                                                 StoredTagNames(T, i))}])
                    /\ game_versions' = set_current_version(game_versions, next_id,
                                                            version, "items")
                    /\ next_id' = NextIdAfter(game_versions, next_id, version, "items")

\* a call of bulk_sync_items on its own
BulkSyncGiven(version, ids) ==
    /\ BulkSyncWrites(version, ids)
    /\ UNCHANGED <<item_data, item_runs, sess, calls, championVars, triggerVars,
                   runeVars, tagVars>>

\* bulk_sync_items over the whole upstream catalog
BulkSyncItems(version) == BulkSyncGiven(version, DOMAIN item_data)

\* bulk_sync_items over some of the upstream records
BulkSyncSubset(version) ==
    \E ids \in SUBSET DOMAIN item_data :
        ids # DOMAIN item_data /\ BulkSyncGiven(version, ids)

\* an empty store and a catalog of the given profiles with at most MaxDecls
\* list entries
GraphStart(ids, profiles) ==
    /\ game_versions = {}
    /\ next_id = 1
    /\ sess = [s \in Sessions |-> IdleSession]
    /\ calls = 0
    /\ item_data \in {Catalog(ids, prof, D) :
                         prof \in [ids -> profiles],
                         D \in SubsetsUpTo(Decls(ids), MaxDecls)}
    /\ items = <<>>
    /\ item_tags = {}
    /\ tags = {}
    /\ item_recipes = {}
    /\ item_runs = <<>>
    /\ recipe_runs = <<>>
    /\ NoChampions
    /\ NoJobs
    /\ NoTagSync
    /\ NoRunes

GraphInit == GraphStart(GraphItemIds, GraphProfiles)

\* the item sync and the bulk sync, both at the latest version
GraphNext ==
    \/ item_runs = <<>> /\ UpdateItems(latest)
    \/ BulkSyncItems(latest)

SpecGraph == GraphInit /\ [][GraphNext]_vars

ClassifyInit == GraphStart(ItemIds, ClassifyProfiles)

SpecClassify == ClassifyInit /\ [][GraphNext]_vars

\* the item sync and a bulk sync over part of the catalog
SubsetNext ==
    \/ item_runs = <<>> /\ UpdateItems(latest)
    \/ BulkSyncSubset(latest)

SubsetInit == GraphStart(ItemIds, GraphProfiles)

SpecSubset == SubsetInit /\ [][SubsetNext]_vars

\* ------------------------------------------------------------------------
\* The missing-components sync
\* ------------------------------------------------------------------------
\* the component ids the "from" lists of the stored items declare
declared_component_ids(T) ==
    UNION {Range(item_data[i].from) : i \in DOMAIN T.items \cap DOMAIN item_data}

\* "for component in item.built_from: referenced_component_ids.add(
\* component.id)" over the stored items: built_from joins item_recipes with
\* items, a component is an Item entity
referenced_component_ids(T) ==
    UNION {built_from(T.item_recipes, i) \cap DOMAIN T.items : i \in DOMAIN T.items}

\* existing_ids = set(db_items.keys())
existing_ids(T) == DOMAIN T.items

\* missing_component_ids = referenced_component_ids - existing_ids
missing_component_ids(T) == referenced_component_ids(T) \ existing_ids(T)

\* POST /sync/missing-components: fails says that get_latest_version or
\* fetch_items_data raises, which ends the request with a ServiceError
\* before the store is read
SyncMissingComponents(fails) ==
    /\ item_data # <<>>
    /\ Len(component_syncs) < MaxRuns
    /\ LET missing == missing_component_ids(CommittedStore)
           missing_items_data == missing \cap DOMAIN item_data
           entry == [missing |-> IF fails THEN {} ELSE missing, fetched |-> ~fails,
                     before |-> CommittedStore, ledger |-> game_versions]
       IN  IF fails
           THEN /\ component_syncs' = Append(component_syncs,
                                         entry @@ [status |-> "error"])
                /\ UNCHANGED <<ledgerVars, itemVars>>
           ELSE IF missing = {} \/ missing_items_data = {}
           THEN /\ component_syncs' = Append(component_syncs,
                                         entry @@ [status |-> "skipped"])
                /\ UNCHANGED <<ledgerVars, itemVars>>
           ELSE /\ BulkSyncWrites(latest, missing_items_data)
                /\ component_syncs' = Append(component_syncs,
                       entry @@ [status |-> IF recipe_runs'[Len(recipe_runs')].raised
                                            THEN "error" ELSE "success"])
                /\ UNCHANGED <<item_data, item_runs, sess, calls>>
    /\ UNCHANGED <<championVars, triggerVars, runeVars, tag_sync>>

\* item syncs at either version and missing-components syncs
MissingNext ==
    \/ \E v \in Versions : UpdateItems(v)
    \/ \E fails \in BOOLEAN : SyncMissingComponents(fails)

\* a catalog whose records have "from" lists only
MissingInit == ItemInit /\ \A id \in ItemIds : item_data[id].into = <<>>

SpecMissing == MissingInit /\ [][MissingNext]_vars

\* the "requiredChampion" values of the upstream records: none, the id of
\* the champion, the id in another case, the id of a champion never stored
RequiredNames == {NoChampion, "Aatrox", "aatrox", "Yuumi"}

\* a catalog of basic items with "requiredChampion" entries, and a store
\* with or without the champion
RequiredInit ==
    /\ game_versions = {}
    /\ next_id = 1
    /\ sess = [s \in Sessions |-> IdleSession]
    /\ calls = 0
    /\ item_data \in {[i \in ItemIds |->
                          [Catalog(ItemIds, [k \in ItemIds |->
                                      [total |-> 400, depth |-> 1, tags |-> <<>>]], {})[i]
                              EXCEPT !.required = r[i]]] :
                         r \in [ItemIds -> RequiredNames]}
    /\ items = <<>>
    /\ item_tags = {}
    /\ tags = {}
    /\ item_recipes = {}
    /\ item_runs = <<>>
    /\ recipe_runs = <<>>
    /\ champion_data = <<>>
    /\ champions \in {<<>>, ("Aatrox" :> [version |-> 1])}
    /\ champion_runs = <<>>
    /\ NoDetails
    /\ NoJobs
    /\ NoTagSync
    /\ NoRunes

SpecRequired == RequiredInit /\ [][GraphNext]_vars

\* ------------------------------------------------------------------------
\* Champion family: DataDragonManager.update_champions
\* ------------------------------------------------------------------------
ChampionIds == 1..NChampions

\* what is wrong with an upstream champion record: nothing; the detail
\* document cannot be used (fetch_champion_data raises, or "stats"/"info"/
\* "key" is missing: KeyError before any write); nested data is malformed (a
\* statement raises after the champion row was written)
Malformed == {"none", "record", "nested"}

ChampionRecords(id) == {[id |-> id, malformed |-> m] : m \in Malformed}

\* the columns update_champions writes for one record
ChampionRow(rec, version) == [version |-> version]

\* the body of the per-champion try block on the working copy T of table
\* champions: [ok, champions]
ProcessChampion(T, rec, version) ==
    IF rec.malformed = "record" THEN [ok |-> FALSE, champions |-> T]
    ELSE [ok |-> rec.malformed = "none",
          champions |-> (rec.id :> ChampionRow(rec, version)) @@ T]

\* the for loop of update_champions from record i on: "except Exception:
\* logger.error(..); await self.db.rollback()" discards the session's whole
\* transaction, which began at the last commit (the table named committed)
RECURSIVE ProcessChampions(_, _, _, _, _, _)
ProcessChampions(T, committed, data, i, version, failed) ==
    IF i > Len(data) THEN [champions |-> T, failed |-> failed]
    ELSE LET res == ProcessChampion(T, data[i], version)
         IN  IF res.ok
             THEN ProcessChampions(res.champions, committed, data, i + 1, version, failed)
             ELSE ProcessChampions(committed, committed, data, i + 1, version,
                                   failed \cup {data[i].id})

\* no upstream request of the sync fails
NoFetchError == 0 - 1

\* the batch as the sync sees it when the request at fetch_error fails:
\* fetch_champion_data(version, champion_id) of record fetch_error raises
\* (raise_for_status) inside the per-champion try, before any write of it
SeenBatch(data, fetch_error) ==
    [i \in DOMAIN data |->
        IF i = fetch_error THEN [data[i] EXCEPT !.malformed = "record"] ELSE data[i]]

\* a rollback that keeps the session's uncommitted writes
KeepSession(committed, T) == T

\* "await self.db.rollback()" of the outer handler: the session's
\* uncommitted writes T are discarded, the committed rows remain
RollbackSession(committed, T) == committed

\* update_champions(version) in a session of its own, to its commit or to
\* its "raise". fetch_error = 0: the summary document cannot be fetched;
\* fetch_error = k > 0: the detail document of record k cannot be fetched;
\* swap_error: set_current_version raises (database error)
ChampionSync(version, fetch_error, swap_error) ==
    /\ champion_data # <<>>
    /\ Len(champion_runs) < MaxRuns
    /\ LET res == ProcessChampions(champions, champions,
                                   SeenBatch(champion_data, fetch_error), 1, version, {})
           raised == fetch_error = 0 \/ swap_error
           after == IF fetch_error = 0 THEN champions
                    ELSE IF swap_error THEN RollbackSession(champions, res.champions)
                    ELSE res.champions
           ledger == IF raised THEN RollbackSession(game_versions,
                                        set_current_version(game_versions, next_id,
                                                            version, "champions"))
                     ELSE set_current_version(game_versions, next_id, version, "champions")
       IN  /\ champions' = after
           /\ game_versions' = ledger
           /\ next_id' = IF raised THEN next_id
                         ELSE NextIdAfter(game_versions, next_id, version, "champions")
           /\ champion_runs' = Append(champion_runs,
                  [version |-> version,
                   failed |-> IF fetch_error = 0 THEN {} ELSE res.failed,
                   raised |-> raised, champions |-> after,
                   fetch_error |-> fetch_error, swap_error |-> swap_error,
                   champions_before |-> champions,
                   current_before |-> get_current_db_version(game_versions, "champions"),
                   current_after |-> get_current_db_version(ledger, "champions")])
    /\ UNCHANGED <<champion_data, champion_docs, champion_store, detail_runs, sess, calls,
                   itemVars, triggerVars, runeVars, tagVars>>

\* update_champions(version): every document is fetched, the swap succeeds
UpdateChampions(version) == ChampionSync(version, NoFetchError, FALSE)

\* update_champions(version) with a transport error at one of its fetches
UpdateChampionsFetchError(version, k) == ChampionSync(version, k, FALSE)

\* update_champions(version) where the version swap raises
UpdateChampionsSwapError(version) == ChampionSync(version, NoFetchError, TRUE)

ChampionInit ==
    /\ game_versions = {}
    /\ next_id = 1
    /\ sess = [s \in Sessions |-> IdleSession]
    /\ calls = 0
    /\ NoItems
    /\ champion_data \in {d \in [ChampionIds -> UNION {ChampionRecords(id) : id \in ChampionIds}] :
                             \A id \in ChampionIds : d[id].id = id}
    /\ champions = <<>>
    /\ champion_runs = <<>>
    /\ NoDetails
    /\ NoJobs
    /\ NoTagSync
    /\ NoRunes

ChampionNext ==
    \/ \E v \in Versions : UpdateChampions(v)
    \/ \E v \in Versions, k \in 0..NChampions : UpdateChampionsFetchError(v, k)
    \/ \E v \in Versions : UpdateChampionsSwapError(v)

SpecChampions == ChampionInit /\ [][ChampionNext]_vars

\* ------------------------------------------------------------------------
\* Champion family in detail: the row of a champion and its tag links,
\* passive, spells and skins (the body of the per-champion try block)
\* ------------------------------------------------------------------------
\* the champion the detail documents are about
DetailChampion == "Aatrox"

\* a key the document does not have
Omitted == "omitted"

\* "spell_types = ["Q", "W", "E", "R"]"
spell_types == <<"Q", "W", "E", "R">>

DetailTags == {"Fighter", "Tank"}
SpellIds == 1..NSpellIds
SkinNums == 0..(NSkins - 1)

\* the lists of distinct spell ids, of at most MaxSpells entries
SpellLists ==
    {q \in SeqsUpTo(SpellIds, MaxSpells) : \A i, k \in 1..Len(q) : i # k => q[i] # q[k]}

\* the "skins" lists: the skin numbers a document lists, in ascending order
SkinLists == {SeqOf(S) : S \in SUBSET SkinNums}

\* <version>/champion/<id>.json, "data"[id]: "lore" (or no such key), "tags",
\* the name of "passive" (or no such key), the ids of "spells" in document
\* order and the "num" of the "skins"
ChampionDoc(lore, tag_list, passive, spells, skins) ==
    [id |-> DetailChampion, lore |-> lore, tags |-> tag_list, passive |-> passive,
     spells |-> spells, skins |-> skins]

\* the documents that differ in their tag list
TagDocs ==
    {ChampionDoc("a", t, "a", <<1>>, <<0>>) : t \in SeqsUpTo(DetailTags, MaxTagList)}

\* the documents that differ in their fields, passive, spells and skins
PartDocs ==
    {ChampionDoc(l, <<"Tank">>, p, sp, sk) :
        l \in {Omitted, "a", "b"}, p \in {Omitted, "a", "b"},
        sp \in SpellLists, sk \in SkinLists}

\* the tables update_champions writes
ChampionStore(chs, links, passives, spells, skins) ==
    [champions |-> chs, champion_tags |-> links, passives |-> passives,
     spells |-> spells, skins |-> skins]

EmptyChampionStore == ChampionStore(<<>>, {}, {}, {}, {})

\* the columns written for the champion row, in the update branch and in
\* the create branch alike: "lore" is champion_info.get("lore", "")
DetailRow(doc, version) ==
    [version |-> version, lore |-> IF doc.lore = Omitted THEN "" ELSE doc.lore]

\* a sync that leaves the stored links of the champion in place
KeepTags(links, id) == links

\* "delete(champion_tags).where(champion_tags.c.champion_id == champion_id)"
ClearTags(links, id) == {l \in links : l[1] # id}

\* "champion_tags.insert().values(champion_id, tag_id)" for every tag of the
\* list; uq_champion_tag rejects a link that is stored
ChampionTagLinks(doc) == [k \in 1..Len(doc.tags) |-> <<doc.id, doc.tags[k]>>]

\* "Update passive ability": nothing when the document has no passive;
\* otherwise the passive found by champion_id is overwritten, or a new one
\* with id "<champion_id>_passive" is added
UpdatePassive(passives, doc) ==
    IF doc.passive = Omitted THEN passives
    ELSE {p \in passives : p.champion_id # doc.id}
            \cup {[champion_id |-> doc.id, name |-> doc.passive]}

\* "Update spells (Q, W, E, R)" from position i on. A spell is looked up by
\* its id: the update branch writes the name, texts, costs and image of the
\* spell, not its champion_id or spell_type; the create branch adds
\* Spell(id, champion_id, spell_type) and flushes, and uq_champion_spell
\* (champion_id, spell_type) rejects a second spell of the slot
RECURSIVE UpdateSpells(_, _, _, _)
UpdateSpells(spells, id, spells_data, i) ==
    IF i > Len(spells_data) THEN [ok |-> TRUE, spells |-> spells]
    ELSE IF \E s \in spells : s.id = spells_data[i]
         THEN UpdateSpells(spells, id, spells_data, i + 1)
    ELSE IF \E s \in spells : s.champion_id = id /\ s.spell_type = spell_types[i]
         THEN [ok |-> FALSE, spells |-> spells]
    ELSE UpdateSpells(spells \cup {[id |-> spells_data[i], champion_id |-> id,
                                    spell_type |-> spell_types[i]]},
                      id, spells_data, i + 1)

\* "Update skins": each listed skin is looked up by (champion_id, skin_num)
\* and overwritten or added; no stored skin is deleted
UpdateSkins(skins, doc) ==
    skins \cup {[champion_id |-> doc.id, skin_num |-> doc.skins[k]] : k \in 1..Len(doc.skins)}

\* the body of the per-champion try block on the working copy T of the
\* tables: [ok, store]; ok = FALSE when a statement raised
ProcessChampionDoc(T, doc, version) ==
    LET chs == (doc.id :> DetailRow(doc, version)) @@ T.champions
        linked == InsertRows(ClearTags(T.champion_tags, doc.id), ChampionTagLinks(doc))
        sp == UpdateSpells(T.spells, doc.id, Take(doc.spells, Len(spell_types)), 1)
    IN  [ok |-> linked.ok /\ sp.ok,
         store |-> ChampionStore(chs, linked.rows, UpdatePassive(T.passives, doc),
                                 sp.spells, UpdateSkins(T.skins, doc))]

\* the for loop over champion_ids from document i on; a document that raises
\* is logged and "await self.db.rollback()" discards the transaction
RECURSIVE ProcessChampionDocs(_, _, _, _, _, _)
ProcessChampionDocs(T, committed, docs, i, version, failed) ==
    IF i > Len(docs) THEN [store |-> T, failed |-> failed]
    ELSE LET res == ProcessChampionDoc(T, docs[i], version)
         IN  IF res.ok
             THEN ProcessChampionDocs(res.store, committed, docs, i + 1, version, failed)
             ELSE ProcessChampionDocs(committed, committed, docs, i + 1, version,
                                      failed \cup {docs[i].id})

\* update_champions(version) over the detail documents of the version, to
\* its commit: the loop, the version swap, the commit
UpdateChampionDetails(version) ==
    /\ champion_docs # <<>>
    /\ Len(detail_runs) < MaxRuns
    /\ LET res == ProcessChampionDocs(champion_store, champion_store,
                                      champion_docs[version], 1, version, {})
       IN  /\ champion_store' = res.store
           /\ game_versions' = set_current_version(game_versions, next_id, version,
                                                   "champions")
           /\ next_id' = NextIdAfter(game_versions, next_id, version, "champions")
           /\ detail_runs' = Append(detail_runs,
                  [version |-> version, docs |-> champion_docs[version],
                   failed |-> res.failed, before |-> champion_store,
                   after |-> res.store])
    /\ UNCHANGED <<champion_docs, champion_data, champions, champion_runs, sess, calls,
                   itemVars, triggerVars, runeVars, tagVars>>

\* the store is empty; upstream has, per version, no champion or the one
\* champion with one of the documents of docs
DetailStart(docs) ==
    /\ game_versions = {}
    /\ next_id = 1
    /\ sess = [s \in Sessions |-> IdleSession]
    /\ calls = 0
    /\ NoItems
    /\ champion_data = <<>>
    /\ champions = <<>>
    /\ champion_runs = <<>>
    /\ champion_docs \in [Versions -> docs]
    /\ champion_store = EmptyChampionStore
    /\ detail_runs = <<>>
    /\ NoJobs
    /\ NoTagSync
    /\ NoRunes

DetailNext == \E v \in Versions : UpdateChampionDetails(v)

\* re-syncs of a champion whose tag list changes or which leaves the catalog
TagDetailInit == DetailStart({<<>>} \cup {<<d>> : d \in TagDocs})

SpecChampionTags == TagDetailInit /\ [][DetailNext]_vars

\* re-syncs of a champion whose fields, passive, spells and skins change
PartDetailInit == DetailStart({<<d>> : d \in PartDocs})

SpecChampionParts == PartDetailInit /\ [][DetailNext]_vars

\* ------------------------------------------------------------------------
\* Rune family: DataDragonManager.update_runes and the commit of its caller
\* ------------------------------------------------------------------------
RunePathIds == 1..NPaths
RuneIds == 1..NRunes

\* the "slots" of one upstream path: per slot the ids of its "runes"; a rune
\* belongs to one slot of one path
SlotLists ==
    {q \in SeqsUpTo(SUBSET RuneIds, MaxSlots) :
        \A i, k \in 1..Len(q) : i # k => q[i] \cap q[k] = {}}

\* the documents runesReforged.json can be: the paths in id order
RunePayloads ==
    {d \in [RunePathIds -> [id : RunePathIds, slots : SlotLists]] :
        /\ \A i \in RunePathIds : d[i].id = i
        /\ \A i, k \in RunePathIds :
              i # k => \A a \in 1..Len(d[i].slots), b \in 1..Len(d[k].slots) :
                          d[i].slots[a] \cap d[k].slots[b] = {}}

RuneStore(paths, slots, rs, slot_id) ==
    [paths |-> paths, slots |-> slots, runes |-> rs, next_slot_id |-> slot_id]

CommittedRunes == RuneStore(rune_paths, rune_slots, runes, next_slot_id)

\* "select(RuneSlot).where(path_id == ..).where(slot_number == ..)"
FindSlot(slots, path_id, slot_number) ==
    {sl \in slots : sl.path_id = path_id /\ sl.slot_number = slot_number}

\* the runes of one slot: "update(Rune).where(Rune.id == rune_id)" or a new
\* Rune, either way with slot_id = slot.id and the sync's version
UpsertRunes(rs, ids, slot_id, version) ==
    [r \in DOMAIN rs \cup ids |->
        IF r \in ids THEN [slot_id |-> slot_id, version |-> version] ELSE rs[r]]

\* the "for slot_idx, slot_data in enumerate(slots_data)" loop from the
\* slot at position i on (slot_number = i - 1)
RECURSIVE ProcessSlots(_, _, _, _, _)
ProcessSlots(T, path_id, slot_lists, i, version) ==
    IF i > Len(slot_lists) THEN T
    ELSE LET found == FindSlot(T.slots, path_id, i - 1)
             slot == IF found # {} THEN CHOOSE sl \in found : TRUE
                     ELSE [id |-> T.next_slot_id, path_id |-> path_id,
                           slot_number |-> i - 1]
             T1 == RuneStore(T.paths, T.slots \cup {slot},
                             UpsertRunes(T.runes, slot_lists[i], slot.id, version),
                             IF found # {} THEN T.next_slot_id ELSE T.next_slot_id + 1)
         IN  ProcessSlots(T1, path_id, slot_lists, i + 1, version)

\* the "for path_data in rune_data" loop from path i on
RECURSIVE ProcessPaths(_, _, _, _)
ProcessPaths(T, data, i, version) ==
    IF i > Len(data) THEN T
    ELSE LET T1 == [T EXCEPT !.paths = (data[i].id :> [version |-> version]) @@ @]
         IN  ProcessPaths(ProcessSlots(T1, data[i].id, data[i].slots, 1, version),
                          data, i + 1, version)

\* what the caller of update_runes does with its exception: get_db and the
\* background tasks roll the session back, nothing of the attempt is kept
RollbackCaller(committed, T) == committed

RuneErrors == {"none", "fetch", "entity", "swap"}

\* update_runes(version) and the commit of its caller, in a session of its
\* own. error = "fetch": fetch_rune_data raises; error = "entity": a
\* statement of the path loop raises on the data of one path, slot or rune
\* (the loop has no handler); error = "swap": set_current_version raises
\* after the loop
RuneSync(version, error) ==
    /\ rune_data # <<>>
    /\ Len(rune_runs) < MaxRuns
    /\ LET T == ProcessPaths(CommittedRunes, rune_data[version], 1, version)
           after == IF error = "fetch" THEN CommittedRunes
                    ELSE IF error \in {"entity", "swap"} THEN RollbackCaller(CommittedRunes, T)
                    ELSE T
           swapped == set_current_version(game_versions, next_id, version, "runes")
           ledger == IF error \in {"fetch", "entity"} THEN game_versions
                     ELSE IF error = "swap" THEN RollbackCaller(game_versions, swapped)
                     ELSE swapped
       IN  /\ rune_paths' = after.paths
           /\ rune_slots' = after.slots
           /\ runes' = after.runes
           /\ next_slot_id' = after.next_slot_id
           /\ game_versions' = ledger
           /\ next_id' = IF error = "none"
                         THEN NextIdAfter(game_versions, next_id, version, "runes")
                         ELSE next_id
           /\ rune_runs' = Append(rune_runs,
                  [version |-> version, error |-> error, raised |-> error # "none",
                   by |-> "update_runes",
                   before |-> CommittedRunes, after |-> after,
                   current_before |-> get_current_db_version(game_versions, "runes"),
                   current_after |-> get_current_db_version(ledger, "runes")])
    /\ UNCHANGED <<rune_data, validation, sess, calls, itemVars, championVars,
                   triggerVars, tagVars>>

\* update_runes(version) without an error
UpdateRunes(version) == RuneSync(version, "none")

\* update_runes(version) that raises
UpdateRunesError(version, error) == RuneSync(version, error)

\* "select(Rune).where(Rune.slot_id == slot.id)"
SlotRunes(rs, slot_id) == {r \in DOMAIN rs : rs[r].slot_id = slot_id}

RuneInit ==
    /\ game_versions = {}
    /\ next_id = 1
    /\ sess = [s \in Sessions |-> IdleSession]
    /\ calls = 0
    /\ NoItems
    /\ NoChampions
    /\ NoJobs
    /\ NoTagSync
    /\ rune_data \in [Versions -> RunePayloads]
    /\ rune_paths = <<>>
    /\ rune_slots = {}
    /\ runes = <<>>
    /\ next_slot_id = 1
    /\ rune_runs = <<>>
    /\ validation = NoReport

RuneNext ==
    \/ \E v \in Versions : UpdateRunes(v)
    \/ \E v \in Versions, e \in RuneErrors \ {"none"} : UpdateRunesError(v, e)

SpecRunes == RuneInit /\ [][RuneNext]_vars

\* ------------------------------------------------------------------------
\* Rune family: RuneRepository.bulk_sync_runes
\* ------------------------------------------------------------------------
\* create_or_update_runes(slot, runes_data, version): the runes stored in the
\* slot are updated, the others of runes_data are added as new rows, the
\* stored ones that runes_data does not list are deleted; the flush raises
\* when a new row has the id of a rune stored in another slot
create_or_update_runes(rs, slot_id, ids, version) ==
    LET existing_runes == SlotRunes(rs, slot_id)
        created == ids \ existing_runes
        kept == (DOMAIN rs \ existing_runes) \cup ids
    IN  [ok |-> created \cap DOMAIN rs = {},
         runes |-> [r \in kept |->
                       IF r \in ids THEN [slot_id |-> slot_id, version |-> version]
                       ELSE rs[r]]]

\* create_or_update_rune_path: the path row and, from position i on, the
\* slots that are not stored (slot_number = i - 1)
RECURSIVE CreateSlots(_, _, _, _)
CreateSlots(T, path_id, n, i) ==
    IF i > n THEN T
    ELSE LET found == FindSlot(T.slots, path_id, i - 1)
         IN  IF found # {} THEN CreateSlots(T, path_id, n, i + 1)
             ELSE CreateSlots(RuneStore(T.paths,
                                        T.slots \cup {[id |-> T.next_slot_id,
                                                       path_id |-> path_id,
                                                       slot_number |-> i - 1]},
                                        T.runes, T.next_slot_id + 1),
                              path_id, n, i + 1)

\* sync_rune_tree, "for i, (slot, slot_data) in enumerate(zip(slots,
\* slots_data))" from position i on
RECURSIVE SyncSlots(_, _, _, _, _)
SyncSlots(T, path_id, slot_lists, i, version) ==
    IF i > Len(slot_lists) THEN [ok |-> TRUE, store |-> T]
    ELSE LET slot == CHOOSE sl \in FindSlot(T.slots, path_id, i - 1) : TRUE
             res == create_or_update_runes(T.runes, slot.id, slot_lists[i], version)
         IN  IF ~res.ok THEN [ok |-> FALSE, store |-> T]
             ELSE SyncSlots([T EXCEPT !.runes = res.runes], path_id, slot_lists,
                            i + 1, version)

\* bulk_sync_runes, "for path_data in rune_data" from path i on
RECURSIVE SyncRuneTrees(_, _, _, _)
SyncRuneTrees(T, data, i, version) ==
    IF i > Len(data) THEN [ok |-> TRUE, store |-> T]
    ELSE LET T1 == [T EXCEPT !.paths = (data[i].id :> [version |-> version]) @@ @]
             T2 == CreateSlots(T1, data[i].id, Len(data[i].slots), 1)
             res == SyncSlots(T2, data[i].id, data[i].slots, 1, version)
         IN  IF ~res.ok THEN res ELSE SyncRuneTrees(res.store, data, i + 1, version)

\* bulk_sync_runes(rune_data, version) and the commit of its caller; an
\* exception becomes a TransactionError and nothing of the call is kept
BulkSyncRunes(version) ==
    /\ rune_data # <<>>
    /\ Len(rune_runs) < MaxRuns
    /\ LET res == SyncRuneTrees(CommittedRunes, rune_data[version], 1, version)
           after == IF res.ok THEN res.store ELSE RollbackCaller(CommittedRunes, res.store)
           ledger == IF res.ok
                     THEN set_current_version(game_versions, next_id, version, "runes")
                     ELSE game_versions
       IN  /\ rune_paths' = after.paths
           /\ rune_slots' = after.slots
           /\ runes' = after.runes
           /\ next_slot_id' = after.next_slot_id
           /\ game_versions' = ledger
           /\ next_id' = IF res.ok
                         THEN NextIdAfter(game_versions, next_id, version, "runes")
                         ELSE next_id
           /\ rune_runs' = Append(rune_runs,
                  [version |-> version, error |-> IF res.ok THEN "none" ELSE "entity",
                   raised |-> ~res.ok, by |-> "bulk_sync_runes",
                   before |-> CommittedRunes, after |-> after,
                   current_before |-> get_current_db_version(game_versions, "runes"),
                   current_after |-> get_current_db_version(ledger, "runes")])
    /\ UNCHANGED <<rune_data, validation, sess, calls, itemVars, championVars,
                   triggerVars, tagVars>>

\* the two rune syncs, without transport errors
RuneTreeNext ==
    \/ \E v \in Versions : UpdateRunes(v)
    \/ \E v \in Versions : BulkSyncRunes(v)

SpecRuneTrees == RuneInit /\ [][RuneTreeNext]_vars

\* ------------------------------------------------------------------------
\* Validation Reporter: ValidationService behind POST /validation/<family>
\* ------------------------------------------------------------------------
ValidatedFamilies == {"champions", "items", "runes"}

\* every table the syncs write, as committed
Tables ==
    [store |-> CommittedStore, champions |-> champions, runes |-> CommittedRunes,
     ledger |-> game_versions]

\* a validate_champions that selects the champions of every version
validate_champions_of_any_version(current_version, chs) ==
    IF current_version = NoVersion
    THEN [status |-> "completed", total_count |-> 0, errors |-> 1]
    ELSE [status |-> "completed", total_count |-> Cardinality(DOMAIN chs), errors |-> 0]

\* validate_champions when _get_current_version returns current_version
\* (the checks of passive, spells and skins read rows this model does not
\* hold)
validate_champions(current_version, chs) ==
    IF current_version = NoVersion
    THEN [status |-> "completed", total_count |-> 0, errors |-> 1]
    ELSE [status |-> "completed",
          total_count |-> Cardinality({c \in DOMAIN chs : chs[c].version = current_version}),
          errors |-> 0]

\* validate_items, "Item has depth > 1 but no components": its error on the
\* fields held here
item_error(store, i) ==
    /\ store.items[i].depth > 1
    /\ built_from(store.item_recipes, i) = {}

\* validate_items, "Item has no tags": its warning on the fields held here
item_warning(store, i) == StoredTagNames(store, i) = {}

\* an item counted as valid only when it has no error and no warning
item_valid_unwarned(store, i) == ~item_error(store, i) /\ ~item_warning(store, i)

\* item_valid at "if item_valid: result.valid_count += 1"
item_valid(store, i) == ~item_error(store, i)

\* validate_items: the items of the current version are checked; flagged and
\* warned are the entity ids of result.errors and result.warnings
validate_items(current_version, store) ==
    IF current_version = NoVersion
    THEN [status |-> "completed", total_count |-> 0, errors |-> 1, valid_count |-> 0,
          flagged |-> {}, warned |-> {}]
    ELSE LET its == {i \in DOMAIN store.items : store.items[i].version = current_version}
         IN  [status |-> "completed",
              total_count |-> Cardinality(its),
              errors |-> Cardinality({i \in its : item_error(store, i)}),
              valid_count |-> Cardinality({i \in its : item_valid(store, i)}),
              flagged |-> {i \in its : item_error(store, i)},
              warned |-> {i \in its : item_warning(store, i)}]

\* validate_runes: "Rune path has no slots" and "Rune slot has no runes"
validate_runes(current_version, store) ==
    IF current_version = NoVersion
    THEN [status |-> "completed", total_count |-> 0, errors |-> 1]
    ELSE LET paths == {p \in DOMAIN store.paths : store.paths[p].version = current_version}
             slots(p) == {sl \in store.slots : sl.path_id = p}
             empty(p) == {sl \in slots(p) : SlotRunes(store.runes, sl.id) = {}}
         IN  [status |-> "completed",
              total_count |-> Cardinality(paths),
              errors |-> Cardinality({p \in paths : slots(p) = {}})
                         + Cardinality(UNION {empty(p) : p \in paths})]

\* the report of one family's validator
ValidationReport(f, current_version, t) ==
    CASE f = "champions" -> validate_champions(current_version, t.champions)
      [] f = "items" -> validate_items(current_version, t.store)
      [] f = "runes" -> validate_runes(current_version, t.runes)

\* a validator that deletes the rune slots it finds empty
AfterValidationRepaired(t) ==
    [t EXCEPT !.runes.slots = {sl \in @ : SlotRunes(t.runes.runes, sl.id) # {}}]

\* the tables after a validator ran: every statement it issues is a SELECT
AfterValidation(t) == t

\* POST /validation/<f> in a session of its own; raises: a statement of the
\* validator raises and the endpoint answers with a ServiceError
Validate(f, raises) ==
    /\ \E cur \in get_current_db_version(game_versions, f) :
          LET after == AfterValidation(Tables)
              report == IF raises THEN [status |-> "error"]
                        ELSE ValidationReport(f, cur, Tables)
          IN  /\ items' = after.store.items
              /\ item_tags' = after.store.item_tags
              /\ tags' = after.store.tags
              /\ item_recipes' = after.store.item_recipes
              /\ champions' = after.champions
              /\ rune_paths' = after.runes.paths
              /\ rune_slots' = after.runes.slots
              /\ runes' = after.runes.runes
              /\ next_slot_id' = after.runes.next_slot_id
              /\ game_versions' = after.ledger
              /\ validation' = report @@ [family |-> f, current |-> cur,
                                           before |-> Tables, after |-> after]
    /\ UNCHANGED <<next_id, sess, calls, item_data, item_runs, recipe_runs, champion_data,
                   champion_docs, champion_store, detail_runs,
                   champion_runs, rune_data, rune_runs, triggerVars, tagVars>>

\* one family has a payload: the item payloads are those without "into"
\* lists
ValidationInit ==
    \/ ItemInit /\ \A id \in ItemIds : item_data[id].into = <<>>
    \/ ChampionInit
    \/ RuneInit

ValidationNext ==
    \/ /\ Len(item_runs) + Len(champion_runs) + Len(rune_runs) < MaxRuns
       /\ \/ ItemNext
          \/ ChampionNext
          \/ RuneNext
    \/ \E f \in ValidatedFamilies, raises \in BOOLEAN : Validate(f, raises)

SpecValidation == ValidationInit /\ [][ValidationNext]_vars

\* ------------------------------------------------------------------------
\* Champion and rune syncs side by side, with their family-level failures
\* ------------------------------------------------------------------------
FamiliesInit ==
    /\ game_versions = {}
    /\ next_id = 1
    /\ sess = [s \in Sessions |-> IdleSession]
    /\ calls = 0
    /\ NoItems
    /\ NoJobs
    /\ NoTagSync
    /\ champion_data \in {d \in [ChampionIds -> UNION {ChampionRecords(id) : id \in ChampionIds}] :
                             \A id \in ChampionIds : d[id].id = id}
    /\ champions = <<>>
    /\ champion_runs = <<>>
    /\ NoDetails
    /\ rune_data \in {d \in [Versions -> RunePayloads] : \A v \in Versions : d[v] = d[1]}
    /\ rune_paths = <<>>
    /\ rune_slots = {}
    /\ runes = <<>>
    /\ next_slot_id = 1
    /\ rune_runs = <<>>
    /\ validation = NoReport

FamiliesNext ==
    /\ Len(champion_runs) + Len(rune_runs) < MaxRuns
    /\ \/ ChampionNext
       \/ RuneNext

SpecFamilies == FamiliesInit /\ [][FamiliesNext]_vars

\* ------------------------------------------------------------------------
\* The tags table, shared by the champion and the item sync:
\* get_or_create_tag in two sessions (READ COMMITTED)
\* ------------------------------------------------------------------------
TagFamilies == {"champions", "items"}
TagNames == {"Tank", "Support"}
OtherFamily(f) == IF f = "champions" THEN "items" ELSE "champions"
TagRunning(ts) == ts.pc \in {"select", "insert", "commit"}

\* the sync goes on to the next tag name of its entity, or to its commit
NextTag(ts) ==
    IF Len(ts.names) > 1 THEN [ts EXCEPT !.names = Tail(@), !.pc = "select"]
    ELSE [ts EXCEPT !.names = <<>>, !.pc = "commit"]

\* a statement of the entity raised: the per-entity handler rolls the
\* session back and the loop leaves the entity
EntityFailed(ts) ==
    [ts EXCEPT !.names = <<>>, !.created = {}, !.failed = TRUE, !.pc = "commit"]

\* the sync of family f reaches the tags of an entity ("for tag_name in
\* champion_info.get("tags", [])", "for tag_name in item_info.get("tags", [])")
TagStart(f) ==
    LET g == OtherFamily(f)
        both == TagRunning(tag_sync[g])
    IN  /\ tag_sync[f].pc = "idle"
        /\ tag_sync[f].names # <<>>
        /\ tag_sync' = [tag_sync EXCEPT ![f] = [@ EXCEPT !.pc = "select", !.concurrent = both],
                                        ![g] = [@ EXCEPT !.concurrent = @ \/ both]]
        /\ UNCHANGED <<tags, game_versions, next_id, sess, calls, item_data, items,
                       item_tags, item_recipes, item_runs, recipe_runs, championVars,
                       triggerVars, runeVars, component_syncs>>

\* get_or_create_tag: "select(Tag).where(Tag.name == tag_name)"
TagSelect(f) ==
    LET ts == tag_sync[f]
        name == Head(ts.names)
    IN  /\ ts.pc = "select"
        /\ tag_sync' = [tag_sync EXCEPT ![f] =
                          IF name \in tags \cup ts.created
                          THEN NextTag([ts EXCEPT !.read = @ \cup ({name} \ ts.created)])
                          ELSE [ts EXCEPT !.pc = "insert"]]
        /\ UNCHANGED <<tags, game_versions, next_id, sess, calls, item_data, items,
                       item_tags, item_recipes, item_runs, recipe_runs, championVars,
                       triggerVars, runeVars, component_syncs>>

\* get_or_create_tag: "self.db.add(tag); await self.db.flush()". tags.name is
\* unique: the INSERT waits for an uncommitted row of the name and raises
\* IntegrityError when a committed one exists
TagInsert(f) ==
    LET ts == tag_sync[f]
        name == Head(ts.names)
    IN  /\ ts.pc = "insert"
        /\ name \notin tag_sync[OtherFamily(f)].created
        /\ tag_sync' = [tag_sync EXCEPT ![f] =
                          IF name \in tags THEN EntityFailed(ts)
                          ELSE NextTag([ts EXCEPT !.created = @ \cup {name}])]
        /\ UNCHANGED <<tags, game_versions, next_id, sess, calls, item_data, items,
                       item_tags, item_recipes, item_runs, recipe_runs, championVars,
                       triggerVars, runeVars, component_syncs>>

\* each INSERT waits for the row the other session inserted: the database
\* detects the deadlock and aborts the statement of one session
TagDeadlock(f) ==
    LET ts == tag_sync[f]
        other == tag_sync[OtherFamily(f)]
    IN  /\ ts.pc = "insert" /\ other.pc = "insert"
        /\ Head(ts.names) \in other.created
        /\ Head(other.names) \in ts.created
        /\ tag_sync' = [tag_sync EXCEPT ![f] = EntityFailed(ts)]
        /\ UNCHANGED <<tags, game_versions, next_id, sess, calls, item_data, items,
                       item_tags, item_recipes, item_runs, recipe_runs, championVars,
                       triggerVars, runeVars, component_syncs>>

\* "await self.db.commit()" of update_champions, of update_items
TagCommit(f) ==
    LET ts == tag_sync[f]
    IN  /\ ts.pc = "commit"
        /\ tags' = tags \cup ts.created
        /\ tag_sync' = [tag_sync EXCEPT ![f] =
                          [ts EXCEPT !.pc = "done", !.wrote = ts.created, !.created = {}]]
        /\ UNCHANGED <<game_versions, next_id, sess, calls, item_data, items,
                       item_tags, item_recipes, item_runs, recipe_runs, championVars,
                       triggerVars, runeVars, component_syncs>>

TagInit ==
    /\ game_versions = {}
    /\ next_id = 1
    /\ sess = [s \in Sessions |-> IdleSession]
    /\ calls = 0
    /\ NoItems
    /\ NoChampions
    /\ NoJobs
    /\ NoRunes
    /\ component_syncs = <<>>
    /\ tag_sync \in [TagFamilies -> [pc : {"idle"}, names : SeqsUpTo(TagNames, MaxTags),
                                      created : {{}}, read : {{}}, wrote : {{}},
                                      failed : {FALSE}, concurrent : {FALSE}]]

TagNext ==
    \/ \E f \in TagFamilies : TagStart(f)
    \/ \E f \in TagFamilies : TagSelect(f)
    \/ \E f \in TagFamilies : TagInsert(f)
    \/ \E f \in TagFamilies : TagDeadlock(f)
    \/ \E f \in TagFamilies : TagCommit(f)

SpecTags == TagInit /\ [][TagNext]_vars

\* ------------------------------------------------------------------------
\* update_all: the families one after the other in one session
\* ------------------------------------------------------------------------
\* a failure of update_all that undoes what its earlier families stored
UndoneByFailure(committed, at_start) == at_start

\* "await self.db.rollback()" of a family that raises inside update_all:
\* rows an earlier family committed are not part of the transaction
KeptAfterFailure(committed, at_start) == committed

\* update_items(version) inside update_all when fetch_item_data raises:
\* the outer handler rolls back and re-raises, update_all ends
UpdateItemsFetchError(version) ==
    /\ item_data # <<>>
    /\ champion_runs # <<>>
    /\ Len(item_runs) < MaxRuns
    /\ item_runs' = Append(item_runs,
                       [version |-> version, failed |-> {},
                        before |-> CommittedStore, store |-> CommittedStore,
                        steps |-> <<"fetch">>])
    /\ champions' = KeptAfterFailure(champions, champion_runs[1].champions_before)
    /\ UNCHANGED <<ledgerVars, item_data, items, item_tags, tags, item_recipes, recipe_runs,
                   champion_data, champion_runs, champion_docs, champion_store,
                   detail_runs, triggerVars, runeVars, tagVars>>

\* update_all(force=True) is at its update_champions call
AtChampions == champion_runs = <<>>

\* update_champions returned and update_all is at its update_items call
AtItems == champion_runs # <<>> /\ ~champion_runs[1].raised /\ item_runs = <<>>

\* update_items returned and update_all is at its update_runes call
AtRunes ==
    /\ item_runs # <<>> /\ item_runs[1].steps # <<"fetch">>
    /\ champion_runs # <<>> /\ ~champion_runs[1].raised
    /\ rune_runs = <<>>

\* one update_all(force=True) at the latest version on an empty store; an
\* error of the rune step stands also for one of the steps after it, which
\* the final commit of update_all follows
SyncAllNext ==
    \/ AtChampions /\ UpdateChampions(latest)
    \/ AtChampions /\ \E k \in 0..NChampions : UpdateChampionsFetchError(latest, k)
    \/ AtItems /\ UpdateItems(latest)
    \/ AtItems /\ UpdateItemsFetchError(latest)
    \/ AtRunes /\ UpdateRunes(latest)
    \/ AtRunes /\ \E e \in RuneErrors \ {"none"} : UpdateRunesError(latest, e)

SyncAllInit ==
    /\ game_versions = {}
    /\ next_id = 1
    /\ sess = [s \in Sessions |-> IdleSession]
    /\ calls = 0
    /\ item_data \in {Catalog(ItemIds, prof, D) :
                         prof \in [ItemIds -> ItemProfiles],
                         D \in SubsetsUpTo(Decls(ItemIds), 1)}
    /\ items = <<>>
    /\ item_tags = {}
    /\ tags = {}
    /\ item_recipes = {}
    /\ item_runs = <<>>
    /\ recipe_runs = <<>>
    /\ champion_data \in {d \in [ChampionIds -> UNION {ChampionRecords(id) : id \in ChampionIds}] :
                             \A id \in ChampionIds :
                                 d[id].id = id /\ d[id].malformed # "nested"}
    /\ champions = <<>>
    /\ champion_runs = <<>>
    /\ NoDetails
    /\ NoJobs
    /\ NoTagSync
    /\ rune_data \in {d \in [Versions -> RunePayloads] : \A v \in Versions : d[v] = d[1]}
    /\ rune_paths = <<>>
    /\ rune_slots = {}
    /\ runes = <<>>
    /\ next_slot_id = 1
    /\ rune_runs = <<>>
    /\ validation = NoReport

SpecSyncAll == SyncAllInit /\ [][SyncAllNext]_vars

\* ------------------------------------------------------------------------
\* Sync triggers: POST /sync/{family}, POST /sync/all, their background
\* tasks, and the scheduler's tasks sync_champions, sync_items, sync_runes
\* ------------------------------------------------------------------------
Jobs == 1..MaxJobs
Targets == {"champions", "items", "runes", "all"}
ScheduledFamilies == {"champions", "items", "runes"}

\* a skip test that lets an unforced request through and stops a forced one
SkipSyncForced(current_version, latest_version, force) ==
    current_version = latest_version /\ force

\* sync.py: "if current_version == latest_version and not force: return
\* SyncResponse(status="skipped", ..)"
SkipSync(current_version, latest_version, force) ==
    current_version = latest_version /\ ~force

\* sync.py background tasks: "if current_version != latest_version or force"
RunSync(current_version, latest_version, force) ==
    current_version # latest_version \/ force

\* check_for_updates(): entity type -> current_version != latest_version;
\* the set of the families mapped to True, for every row .first() can return
UpdatesNeeded(rows, latest_version) ==
    {needed \in SUBSET Families :
        \A f \in Families :
            IF f \in needed
            THEN \E cur \in get_current_db_version(rows, f) : cur # latest_version
            ELSE latest_version \in get_current_db_version(rows, f)}

\* update_all with its four "if force or updates_needed[..]" blocks in the
\* opposite order
UpdateAllReversed(needed, force) ==
    IF force \/ needed # {}
    THEN SelectSeq(<<"summoner-spells", "runes", "items", "champions">>,
                   LAMBDA f : force \/ f \in needed)
    ELSE <<>>

\* the families update_all(force) updates, in its order
UpdateAllOrder(needed, force) ==
    IF force \/ needed # {}
    THEN SelectSeq(EntityTypes, LAMBDA f : force \/ f \in needed)
    ELSE <<>>

\* the set_current_version calls of one commit, in order
RECURSIVE CommitLedger(_, _, _, _)
CommitLedger(rows, id, fams, version) ==
    IF fams = <<>> THEN [rows |-> rows, id |-> id]
    ELSE CommitLedger(set_current_version(rows, id, version, Head(fams)),
                      NextIdAfter(rows, id, version, Head(fams)),
                      Tail(fams), version)

\* the status a finished job reports: the HTTP response of a request (a
\* background request was answered "started" before its task ran), the
\* outcome of _execute_task for a task execution
EndStatus(job, outcome) ==
    IF job.kind = "background" THEN job.status ELSE outcome

\* the job is over: "finally: task.running = False" for a task execution
Finished(j, job, outcome) ==
    /\ jobs' = [jobs EXCEPT ![j] = [job EXCEPT !.pc = "done", !.todo = <<>>,
                                              !.pending = <<>>,
                                              !.status = EndStatus(job, outcome)]]
    /\ task_running' = IF job.kind \in {"scheduled", "manual"}
                       THEN [task_running EXCEPT ![job.target] = FALSE]
                       ELSE task_running

\* the job goes on to update the families of todo, or ends
Proceed(j, job, todo, outcome) ==
    IF todo = <<>> THEN Finished(j, job, outcome)
    ELSE /\ jobs' = [jobs EXCEPT ![j] = [job EXCEPT !.pc = "updating", !.todo = todo,
                                                   !.wrote = @ \cup {Head(todo)}]]
         /\ UNCHANGED task_running

FreeSlot(j) ==
    /\ jobs[j].pc = "idle"
    /\ j > 1 => jobs[j - 1].pc # "idle"

\* POST /sync/{target} with SyncRequest(force, background)
Request(j, background, target, force) ==
    /\ FreeSlot(j)
    /\ jobs' = [jobs EXCEPT ![j] =
                  [IdleJob EXCEPT !.kind = IF background THEN "background" ELSE "request",
                                  !.target = target, !.force = force, !.pc = "fetch",
                                  !.status = IF background THEN "started" ELSE "none"]]
    /\ UNCHANGED <<game_versions, next_id, latest, task_running, sess, calls,
                   itemVars, championVars, runeVars, tagVars,
                   scheduler_running,
                   clockVars>>

\* _scheduler_loop: "if task.should_run: asyncio.create_task(
\* self._execute_task(task))"; the coroutine starts before the next poll
SchedulerSpawn(j, f) ==
    /\ FreeSlot(j)
    /\ scheduler_running
    /\ ~task_running[f]
    /\ \A i \in Jobs : ~(jobs[i].kind = "scheduled" /\ jobs[i].target = f
                          /\ jobs[i].pc = "spawned")
    /\ jobs' = [jobs EXCEPT ![j] =
                  [IdleJob EXCEPT !.kind = "scheduled", !.target = f, !.pc = "spawned"]]
    /\ UNCHANGED <<game_versions, next_id, latest, task_running, sess, calls,
                   itemVars, championVars, runeVars, tagVars,
                   scheduler_running,
                   clockVars>>

\* POST /scheduler/tasks/sync_<f>/run: SchedulerService.run_task
RunTask(j, f) ==
    /\ FreeSlot(j)
    /\ jobs' = [jobs EXCEPT ![j] =
                  [IdleJob EXCEPT !.kind = "manual", !.target = f, !.pc = "spawned"]]
    /\ UNCHANGED <<game_versions, next_id, latest, task_running, sess, calls,
                   itemVars, championVars, runeVars, tagVars,
                   scheduler_running,
                   clockVars>>

\* a running flag that is never found set
TaskNeverBusy(f) == FALSE

\* _execute_task: "if task.running: return False"
TaskBusy(f) == task_running[f]

\* _execute_task up to "await task.func()"
ExecuteTask(j) ==
    /\ jobs[j].pc = "spawned"
    /\ IF TaskBusy(jobs[j].target)
       THEN /\ jobs' = [jobs EXCEPT ![j] = [@ EXCEPT !.pc = "done", !.status = "not_run"]]
            /\ UNCHANGED task_running
       ELSE /\ jobs' = [jobs EXCEPT ![j] = [@ EXCEPT !.pc = "fetch"]]
            /\ task_running' = [task_running EXCEPT ![jobs[j].target] = TRUE]
    /\ UNCHANGED <<game_versions, next_id, latest, sess, calls, itemVars, championVars, runeVars, tagVars,
                   scheduler_running,
                   clockVars>>

\* "latest_version = await data_manager.get_latest_version()"
Fetch(j) ==
    /\ jobs[j].pc = "fetch"
    /\ jobs' = [jobs EXCEPT ![j] = [@ EXCEPT !.pc = "check", !.latest_seen = latest]]
    /\ UNCHANGED <<game_versions, next_id, latest, task_running, sess, calls,
                   itemVars, championVars, runeVars, tagVars,
                   scheduler_running,
                   clockVars>>

\* the version check of a one-family request or background task
CheckFamily(j) ==
    LET job == jobs[j]
    IN  /\ job.pc = "check"
        /\ job.kind \in {"request", "background"}
        /\ job.target # "all"
        /\ \E cur \in get_current_db_version(game_versions, job.target) :
              LET checked == [job EXCEPT !.was_current = (cur = job.latest_seen)]
                  skip == IF job.kind = "request"
                          THEN SkipSync(cur, job.latest_seen, job.force)
                          ELSE ~RunSync(cur, job.latest_seen, job.force)
              IN  IF skip THEN Finished(j, checked, "skipped")
                  ELSE Proceed(j, checked, <<job.target>>, "success")
        /\ UNCHANGED <<game_versions, next_id, latest, sess, calls, itemVars, championVars, runeVars, tagVars,
                   scheduler_running,
                   clockVars>>

\* the version check of POST /sync/all and of _sync_all_task
CheckAll(j) ==
    LET job == jobs[j]
    IN  /\ job.pc = "check"
        /\ job.kind \in {"request", "background"}
        /\ job.target = "all"
        /\ \E needed \in UpdatesNeeded(game_versions, latest) :
              LET checked == [job EXCEPT !.was_current = (needed = {})]
              IN  IF needed = {} /\ ~job.force
                  THEN /\ Finished(j, checked, "skipped")
                  ELSE /\ jobs' = [jobs EXCEPT ![j] = [checked EXCEPT !.pc = "update_all"]]
                       /\ UNCHANGED task_running
        /\ UNCHANGED <<game_versions, next_id, latest, sess, calls, itemVars, championVars, runeVars, tagVars,
                   scheduler_running,
                   clockVars>>

\* update_all(force) up to its first update_<family> call
UpdateAll(j) ==
    LET job == jobs[j]
    IN  /\ job.pc = "update_all"
        /\ \E needed \in UpdatesNeeded(game_versions, latest) :
              Proceed(j, [job EXCEPT !.latest_seen = latest,
                                     !.plan = UpdateAllOrder(needed, job.force)],
                      UpdateAllOrder(needed, job.force), "success")
        /\ UNCHANGED <<game_versions, next_id, latest, sess, calls, itemVars, championVars, runeVars, tagVars,
                   scheduler_running,
                   clockVars>>

\* the version check of sync_champions_task, sync_items_task, sync_runes_task
CheckTask(j) ==
    LET job == jobs[j]
    IN  /\ job.pc = "check"
        /\ job.kind \in {"scheduled", "manual"}
        /\ \E cur \in get_current_db_version(game_versions, job.target),
              needed \in UpdatesNeeded(game_versions, latest) :
              LET checked == [job EXCEPT !.was_current = (cur = job.latest_seen)]
                  own == IF cur # job.latest_seen THEN <<job.target>> ELSE <<>>
                  spells == IF job.target = "champions" /\ "summoner-spells" \in needed
                            THEN <<"summoner-spells">> ELSE <<>>
              IN  Proceed(j, checked, own \o spells, "success")
        /\ UNCHANGED <<game_versions, next_id, latest, sess, calls, itemVars, championVars, runeVars, tagVars,
                   scheduler_running,
                   clockVars>>

\* update_<family>(latest_version) of the job's sync returns: the ledger
\* row is written; update_champions and update_items commit, and so do the
\* callers of update_runes and update_summoner_spells except update_all,
\* which commits after its last family
UpdateDone(j) ==
    LET job == jobs[j]
        f == Head(job.todo)
        rest == Tail(job.todo)
        written == Append(job.pending, f)
        commits == f \in {"champions", "items"} \/ job.target # "all" \/ rest = <<>>
        ledger == CommitLedger(game_versions, next_id, written, job.latest_seen)
    IN  /\ job.pc = "updating"
        /\ IF commits
           THEN /\ game_versions' = ledger.rows
                /\ next_id' = ledger.id
                /\ Proceed(j, [job EXCEPT !.pending = <<>>], rest, "success")
           ELSE /\ UNCHANGED <<game_versions, next_id,
                   clockVars>>
                /\ Proceed(j, [job EXCEPT !.pending = written], rest, "success")
        /\ UNCHANGED <<latest, sess, calls, itemVars, championVars, runeVars, tagVars,
                   scheduler_running,
                   clockVars>>

\* the upstream request of the job raises (raise_for_status, transport
\* error): the session is rolled back and the exception reaches the caller
Fail(j) ==
    /\ jobs[j].pc \in {"fetch", "updating"}
    /\ Finished(j, jobs[j], "error")
    /\ UNCHANGED <<game_versions, next_id, latest, sess, calls, itemVars, championVars, runeVars, tagVars,
                   scheduler_running,
                   clockVars>>

\* a new version is published upstream
Release ==
    /\ latest < MaxVersion
    /\ latest' = latest + 1
    /\ UNCHANGED <<game_versions, next_id, jobs, task_running, sess, calls,
                   itemVars, championVars, runeVars, tagVars,
                   scheduler_running,
                   clockVars>>

\* a stop() that also cancels the task executions in progress
AfterStopCancelled(js) ==
    [j \in DOMAIN js |->
        IF js[j].kind = "scheduled" /\ js[j].pc \in {"spawned", "fetch", "check", "updating"}
        THEN [js[j] EXCEPT !.pc = "cancelled"] ELSE js[j]]

\* the task executions after stop(): "self.task.cancel()" cancels the task
\* of _scheduler_loop only; the executions it spawned are tasks of their own
AfterStop(js) == js

\* SchedulerService.start
StartScheduler ==
    /\ ~scheduler_running
    /\ scheduler_running' = TRUE
    /\ UNCHANGED <<game_versions, next_id, latest, jobs, task_running, sess, calls,
                   itemVars, championVars, runeVars, tagVars,
                   clockVars>>

\* SchedulerService.stop
StopScheduler ==
    /\ scheduler_running
    /\ scheduler_running' = FALSE
    /\ jobs' = AfterStop(jobs)
    /\ UNCHANGED <<game_versions, next_id, latest, task_running, sess, calls,
                   itemVars, championVars, runeVars, tagVars,
                   clockVars>>

\* the ledger after a sync of every family at version 1
SyncedLedger == CommitLedger({}, 1, EntityTypes, 1)

TriggerInit ==
    /\ \E ledger \in {[rows |-> {}, id |-> 1], SyncedLedger} :
          /\ game_versions = ledger.rows
          /\ next_id = ledger.id
    /\ sess = [s \in Sessions |-> IdleSession]
    /\ calls = 0
    /\ NoItems
    /\ NoChampions
    /\ NoJobs
    /\ NoTagSync
    /\ NoRunes

TriggerNext ==
    \/ \E j \in Jobs, background \in BOOLEAN, target \in Targets, force \in BOOLEAN :
          Request(j, background, target, force)
    \/ \E j \in Jobs, f \in ScheduledFamilies : SchedulerSpawn(j, f)
    \/ \E j \in Jobs, f \in ScheduledFamilies : RunTask(j, f)
    \/ \E j \in Jobs : ExecuteTask(j)
    \/ \E j \in Jobs : Fetch(j)
    \/ \E j \in Jobs : CheckFamily(j)
    \/ \E j \in Jobs : CheckAll(j)
    \/ \E j \in Jobs : UpdateAll(j)
    \/ \E j \in Jobs : CheckTask(j)
    \/ \E j \in Jobs : UpdateDone(j)
    \/ \E j \in Jobs : Fail(j)
    \/ Release

SpecTriggers == TriggerInit /\ [][TriggerNext]_vars

\* the scheduler alone: its polling loop, manual task runs, start and stop
SchedulerNext ==
    \/ \E j \in Jobs, f \in ScheduledFamilies : SchedulerSpawn(j, f)
    \/ \E j \in Jobs, f \in ScheduledFamilies : RunTask(j, f)
    \/ \E j \in Jobs : ExecuteTask(j)
    \/ \E j \in Jobs : Fetch(j)
    \/ \E j \in Jobs : CheckTask(j)
    \/ \E j \in Jobs : UpdateDone(j)
    \/ \E j \in Jobs : Fail(j)
    \/ Release
    \/ StartScheduler
    \/ StopScheduler

\* a step of the task execution j: every await of it returns or raises (the
\* HTTP client has a timeout)
TaskStep(j) ==
    ExecuteTask(j) \/ Fetch(j) \/ CheckTask(j) \/ UpdateDone(j) \/ Fail(j)

SpecScheduler ==
    TriggerInit /\ [][SchedulerNext]_vars /\ \A j \in Jobs : WF_vars(TaskStep(j))

\* ------------------------------------------------------------------------
\* One ScheduledTask on the clock: should_run, the polling loop, run_task and
\* _execute_task
\* ------------------------------------------------------------------------
\* "datetime.min", the last_run of a task that never ran
MinTime == 0 - IntervalHours

\* "self.error = None"; an exception is named by the number (from 1) of the
\* coroutine that caught it
NoError == 0

\* ScheduledTask.__init__
ScheduledTask ==
    [last_run |-> MinTime, enabled |-> TRUE, running |-> FALSE, error |-> NoError]

\* ScheduledTask.next_run
next_run(t) == t.last_run + IntervalHours

\* ScheduledTask.should_run at time "datetime.now()"
should_run(t, time) == t.enabled /\ ~t.running /\ time >= next_run(t)

\* a handler that also stamps last_run when the task function raised
AfterRaiseStamped(t, exc, time) ==
    [t EXCEPT !.error = exc, !.running = FALSE, !.last_run = time]

\* _execute_task, "except Exception as e: task.error = e" and "finally:
\* task.running = False"
AfterRaise(t, exc, time) == [t EXCEPT !.error = exc, !.running = FALSE]

\* _execute_task, "task.last_run = datetime.now()" and "finally:
\* task.running = False"
AfterReturn(t, time) == [t EXCEPT !.last_run = time, !.running = FALSE]

\* an hour passes
Tick ==
    /\ clock < MaxClock
    /\ clock' = clock + 1
    /\ UNCHANGED <<task, coros, task_log, latest, jobs, task_running, scheduler_running,
                   ledgerVars, itemVars, championVars, runeVars, tagVars>>

\* a coroutine of _execute_task is created
Spawn(by) ==
    /\ Len(coros) < MaxCoros
    /\ coros' = Append(coros, [by |-> by, pc |-> "spawned", was_due |-> FALSE])
    /\ UNCHANGED <<clock, task, task_log, latest, jobs, task_running, scheduler_running,
                   ledgerVars, itemVars, championVars, runeVars, tagVars>>

\* _scheduler_loop: "if task.should_run: asyncio.create_task(
\* self._execute_task(task))"; the coroutine starts before the next poll
Poll ==
    /\ should_run(task, clock)
    /\ \A c \in 1..Len(coros) : ~(coros[c].by = "loop" /\ coros[c].pc = "spawned")
    /\ Spawn("loop")

\* POST /scheduler/tasks/<name>/run: run_task awaits _execute_task
RunTaskNow == Spawn("manual")

\* _execute_task up to "await task.func()": "if task.running: return False",
\* else "task.running = True; task.error = None"
BeginTask(c) ==
    /\ coros[c].pc = "spawned"
    /\ IF task.running
       THEN /\ coros' = [coros EXCEPT ![c].pc = "not_run"]
            /\ UNCHANGED task
       ELSE /\ coros' = [coros EXCEPT ![c].pc = "running",
                                      ![c].was_due = should_run(task, clock)]
            /\ task' = [task EXCEPT !.running = TRUE, !.error = NoError]
    /\ UNCHANGED <<clock, task_log, latest, jobs, task_running, scheduler_running,
                   ledgerVars, itemVars, championVars, runeVars, tagVars>>

\* "await task.func()" returns, or raises an Exception
EndTask(c, raised) ==
    /\ coros[c].pc = "running"
    /\ coros' = [coros EXCEPT ![c].pc = "done"]
    /\ task' = IF raised THEN AfterRaise(task, c, clock) ELSE AfterReturn(task, clock)
    /\ task_log' = Append(task_log,
                          [coro |-> c, by |-> coros[c].by, was_due |-> coros[c].was_due,
                           outcome |-> IF raised THEN "error" ELSE "success",
                           ended |-> clock])
    /\ UNCHANGED <<clock, latest, jobs, task_running, scheduler_running,
                   ledgerVars, itemVars, championVars, runeVars, tagVars>>

ClockInit ==
    /\ game_versions = {}
    /\ next_id = 1
    /\ sess = [s \in Sessions |-> IdleSession]
    /\ calls = 0
    /\ NoItems
    /\ NoChampions
    /\ NoTagSync
    /\ NoRunes
    /\ latest = 1
    /\ jobs = [j \in 1..MaxJobs |-> IdleJob]
    /\ task_running = [f \in {"champions", "items", "runes"} |-> FALSE]
    /\ scheduler_running = TRUE
    /\ clock = 0
    /\ task = ScheduledTask
    /\ coros = <<>>
    /\ task_log = <<>>

ClockNext ==
    \/ Tick
    \/ Poll
    \/ RunTaskNow
    \/ \E c \in 1..Len(coros) : BeginTask(c)
    \/ \E c \in 1..Len(coros), raised \in BOOLEAN : EndTask(c, raised)

SpecClock == ClockInit /\ [][ClockNext]_vars

\* ------------------------------------------------------------------------
\* Claims on the version ledger
\* ------------------------------------------------------------------------
CurrentRows(rows, entity_type) ==
    {r \in rows : r.entity_type = entity_type /\ r.is_current}

\* C1: in every reachable state of the committed store, each family has at
\* most one game_versions row with is_current = TRUE, also when two syncs of
\* one family interleave their set_current_version steps and commits.
C1_LedgerExclusive ==
    \A f \in Families : Cardinality(CurrentRows(game_versions, f)) <= 1

\* C2: when set_current_version(v, f) has returned in a session,
\* get_current_db_version(f) of that session returns v, no other row of f is
\* current, there is exactly one row for the pair (f, v), and the call wrote
\* no row of another family.
C2_SetThenGet ==
    \A s \in Sessions :
        sess[s].pc = "returned" =>
            LET rows == SessionRows(game_versions, sess[s])
                f == sess[s].entity_type
                v == sess[s].version
            IN  /\ get_current_db_version(rows, f) = {v}
                /\ \A r \in CurrentRows(rows, f) : r.version = v
                /\ Cardinality(VersionRows(rows, v, f)) = 1
                /\ \A r \in game_versions : r.id \in DOMAIN sess[s].upd => r.entity_type = f
                /\ \A r \in sess[s].ins : r.entity_type = f

\* ------------------------------------------------------------------------
\* Claims on the item sync
\* ------------------------------------------------------------------------

ItemSynced == item_runs # <<>>

\* C4: a second item sync at the same version and payload leaves the store
\* as the first one left it (same items, tag links and recipe edges) and
\* fails on no entity that the first run processed without error.
C4_SecondRunIdempotent ==
    \A k \in 2..Len(item_runs) :
        item_runs[k].version = item_runs[k - 1].version =>
            /\ item_runs[k].store = item_runs[k - 1].store
            /\ item_runs[k].failed \subseteq item_runs[k - 1].failed

\* C5: after an item sync, for stored items A and B with B in A's upstream
\* "into" list, B.built_from contains A.
C5_IntoSymmetry ==
    ItemSynced =>
        \A a, b \in DOMAIN items :
            b \in Range(item_data[a].into) => a \in built_from(item_recipes, b)

\* C6: after an item sync, an item P whose upstream "from" list is a set F of
\* stored items, and that no item outside F names in "into", has
\* built_from = F, every c in F has P in builds_into, and the edge is not
\* stored reversed (P is no component of c unless upstream says so).
C6_FromExact ==
    ItemSynced =>
        \A p \in DOMAIN items :
            LET F == Range(item_data[p].from)
            IN  (/\ F # {}
                 /\ F \subseteq DOMAIN items
                 /\ \A a \in ItemIds \ F : p \notin Range(item_data[a].into))
                => /\ built_from(item_recipes, p) = F
                   /\ \A c \in F : p \in builds_into(item_recipes, c)
                   /\ \A c \in F :
                        (p \notin Range(item_data[c].from) /\ c \notin Range(item_data[p].into))
                            => p \notin built_from(item_recipes, c)

ItemTagNames(links, id) == {l[2] : l \in {x \in links : x[1] = id}}

\* C7: after an item sync, a stored mythic item without upstream "from"
\* components that some stored item names in "into" has a non-empty built_from.
C7_MythicComplete ==
    ItemSynced =>
        \A p \in DOMAIN items :
            (/\ is_mythic(items[p], ItemTagNames(item_tags, p))
             /\ Range(item_data[p].from) \cap DOMAIN items = {}
             /\ \E a \in DOMAIN items : p \in Range(item_data[a].into))
            => built_from(item_recipes, p) # {}

\* C15: a family sync that is not skipped runs the steps fetch, reconcile,
\* graph repair, validate, commit in this order, each over the whole batch,
\* and skips none.
C15_StepOrder ==
    \A k \in 1..Len(item_runs) :
        item_runs[k].steps = <<"fetch", "reconcile", "repair", "validate", "commit">>

\* some recipe row connects items a and b, in either direction
Linked(recipes, a, b) ==
    \E r \in recipes : {r.item_id, r.component_id} = {a, b}

\* the recipe rows update_items leaves when every item of the catalog is
\* stored before it runs
EdgesWhenAllExist(version) ==
    LET full == Store([id \in ItemIds |-> ItemRow(item_data[id], version)], {}, {}, {})
    IN  ProcessItems(full, full, item_data, 1, version, {}).store.item_recipes

\* C20: recipe edges are resolved after every item of the batch is upserted:
\* after a first sync into an empty store that fails on no item, every
\* upstream "into" or "from" edge between two catalog items is stored, and
\* the edge set is the one obtained when all items already existed.
C20_EdgesAfterUpserts ==
    (item_runs # <<>> /\ item_runs[1].failed = {}) =>
        /\ \A a, b \in ItemIds :
              (b \in Range(item_data[a].into) \/ b \in Range(item_data[a].from))
                  => Linked(item_runs[1].store.item_recipes, a, b)
        /\ item_runs[1].store.item_recipes = EdgesWhenAllExist(item_runs[1].version)

\* ------------------------------------------------------------------------
\* Claims on the champion sync
\* ------------------------------------------------------------------------
MalformedIds == {c \in ChampionIds : champion_data[c].malformed # "none"}

\* C8: a champion sync over a batch with exactly one malformed record k does
\* not raise, logs exactly one entity error and leaves the other N-1
\* champions upserted (at the sync's version) in the committed store.
C8_PartialFailureIsolated ==
    (/\ champion_runs # <<>>
     /\ Cardinality(MalformedIds) = 1
     /\ champion_runs[Len(champion_runs)].fetch_error = NoFetchError
     /\ ~champion_runs[Len(champion_runs)].swap_error) =>
        LET run == champion_runs[Len(champion_runs)]
        IN  /\ ~run.raised
            /\ Cardinality(run.failed) = 1
            /\ \A c \in ChampionIds \ MalformedIds :
                  c \in DOMAIN champions /\ champions[c].version = run.version

\* C10: whenever the ledger's current version of champions is v, every
\* champion of the upstream payload is stored with version v.
C10_LedgerFullyReconciled ==
    \A r \in CurrentRows(game_versions, "champions") :
        \A c \in ChampionIds :
            c \in DOMAIN champions /\ champions[c].version = r.version

\* C11: a transport error at any fetch of a champion sync (the summary
\* document or a per-champion detail document) makes the attempt fail to its
\* caller and leaves the ledger's current version of champions as it was.
C11_TransportErrorFatal ==
    \A k \in 1..Len(champion_runs) :
        champion_runs[k].fetch_error # NoFetchError =>
            /\ champion_runs[k].raised
            /\ champion_runs[k].current_after = champion_runs[k].current_before

\* ------------------------------------------------------------------------
\* Claims on the rune sync
\* ------------------------------------------------------------------------
\* C13: after any rune sync every stored slot of every synced path holds at
\* least one rune.
C13_NoEmptySlot ==
    rune_runs # <<>> =>
        \A sl \in rune_slots : SlotRunes(runes, sl.id) # {}

\* C12: a family sync that fails at family level (the family document
\* cannot be fetched, or the version swap raises) commits nothing: the
\* family's entity rows and the ledger's current version of the family are
\* what they were before the attempt.
C12_FailureCommitsNothing ==
    /\ \A k \in 1..Len(champion_runs) :
          champion_runs[k].raised =>
              /\ champion_runs[k].champions = champion_runs[k].champions_before
              /\ champion_runs[k].current_after = champion_runs[k].current_before
    /\ \A k \in 1..Len(rune_runs) :
          rune_runs[k].raised =>
              /\ rune_runs[k].after = rune_runs[k].before
              /\ rune_runs[k].current_after = rune_runs[k].current_before

C12_Witness ==
    /\ \E k \in 1..Len(champion_runs) :
          /\ champion_runs[k].swap_error
          /\ champion_data[NChampions].malformed = "none"
          /\ NChampions \notin DOMAIN champions
    /\ \E k \in 1..Len(rune_runs) :
          /\ rune_runs[k].error = "swap"
          /\ \E p \in RunePathIds : \E i \in 1..Len(rune_data[rune_runs[k].version][p].slots) :
                rune_data[rune_runs[k].version][p].slots[i] # {}
          /\ runes = <<>>

\* C19: a run of the Validation Reporter for any family changes nothing:
\* items, tag links, tags, recipe edges, champions, rune paths, slots and
\* runes and the ledger are the same before and after it, in any state of
\* the store.
C19_ValidationReadOnly ==
    validation # NoReport => validation.after = validation.before

C19_Witness ==
    /\ validation # NoReport
    /\ validation.family = "runes"
    /\ validation.status = "completed"
    /\ validation.errors > 0
    /\ \E sl \in rune_slots : SlotRunes(runes, sl.id) = {}
    /\ validation.after = Tables


\* C25: an error on one entity of a batch never leaves the reconciler: the
\* sync of the family records it and returns instead of raising (champion
\* records that raise, and rune data that makes the path loop raise).
C25_EntityErrorsContained ==
    /\ \A k \in 1..Len(champion_runs) :
          (/\ champion_runs[k].failed # {}
           /\ champion_runs[k].fetch_error = NoFetchError
           /\ ~champion_runs[k].swap_error) => ~champion_runs[k].raised
    /\ \A k \in 1..Len(rune_runs) :
          rune_runs[k].error = "entity" => ~rune_runs[k].raised

\* ------------------------------------------------------------------------
\* Claims on the recipe graph builder
\* ------------------------------------------------------------------------
BulkRuns == {k \in 1..Len(recipe_runs) : ~recipe_runs[k].raised}

\* the built_from edges that the "from" lists alone record for p
RecordedFrom(p) == built_from(FirstPassFromOnly(DOMAIN item_data, item_data), p)

C22_MythicClassification ==
    \A k \in BulkRuns :
        LET mythic == {i \in DOMAIN item_data :
                          \/ \E t \in Range(item_data[i].tags) :
                                t \in {"mythic", "Mythic", "legendary", "Legendary"}
                          \/ item_data[i].total > 2500
                          \/ item_data[i].depth >= 3}
        IN  /\ recipe_runs[k].mythic_data = mythic
            /\ recipe_runs[k].mythic_validate = mythic
            /\ recipe_runs[k].mythic_ensure = mythic

C22_Witness ==
    \E k \in BulkRuns :
        /\ \E i \in recipe_runs[k].mythic_ensure :
              item_data[i].tags = <<"Mythic">> /\ item_data[i].total = 400
        /\ \E i \in recipe_runs[k].mythic_data :
              item_data[i].tags = <<>> /\ item_data[i].depth = 3
        /\ \E i \in DOMAIN item_data \ recipe_runs[k].mythic_validate :
              item_data[i].total = 2500

\* the items the heuristic inference attached components to, per bulk run
Inferred(k) ==
    {m \in DOMAIN recipe_runs[k].attached :
        /\ recipe_runs[k].branch[m] \in {"similar", "basic"}
        /\ recipe_runs[k].attached[m] # <<>>}

\* C23: heuristic inference attaches components only to a mythic item with
\* no component and no reverse-index candidate, at most 3 of them, each
\* another item of tier <= 2 that costs less than the mythic item, and they
\* are the most expensive such items.
C23_InferenceBounded ==
    \A k \in BulkRuns : \A m \in Inferred(k) :
        LET A == Range(recipe_runs[k].attached[m])
            Q == {o \in DOMAIN items \ {m} :
                     items[o].tier <= 2 /\ items[o].total_gold < items[m].total_gold}
        IN  /\ m \in recipe_runs[k].mythic_ensure
            /\ built_from(recipe_runs[k].repaired, m) = {}
            /\ ReverseIndex(item_data, m) = {}
            /\ Cardinality(A) <= 3
            /\ A \subseteq Q
            /\ \A c \in A, q \in Q \ A : items[q].total_gold <= items[c].total_gold

\* C24: heuristic inference attaches the components of an orphan mythic in
\* descending cost order, and attaches none once the attached ones cost
\* more than 70% of the mythic item.
C24_StopAtSeventyPercent ==
    \A k \in BulkRuns : \A m \in Inferred(k) :
        LET a == recipe_runs[k].attached[m]
        IN  \A n \in 1..(Len(a) - 1) :
                /\ items[a[n]].total_gold >= items[a[n + 1]].total_gold
                /\ 10 * GoldOf(Range(SubSeq(a, 1, n)), items) <= 7 * items[m].total_gold

\* ------------------------------------------------------------------------
\* Claims on syncs of different families
\* ------------------------------------------------------------------------
\* the tags rows the sync of f has inserted or committed, and those it touched
TagWritten(f) == tag_sync[f].created \cup tag_sync[f].wrote
TagTouched(f) == TagWritten(f) \cup tag_sync[f].read

\* C16: a champion sync and an item sync that run concurrently write
\* disjoint rows: no row written by one is read or written by the other, and
\* neither fails because of the other.
C16_DisjointWrites ==
    \A f \in TagFamilies :
        tag_sync[f].concurrent =>
            /\ ~tag_sync[f].failed
            /\ TagWritten(f) \cap TagTouched(OtherFamily(f)) = {}

\* ------------------------------------------------------------------------
\* Claims on the sync triggers
\* ------------------------------------------------------------------------
\* the syncs of family f in flight: update_<f> was called and has not returned
InFlight(f) == {j \in Jobs : jobs[j].pc = "updating" /\ Head(jobs[j].todo) = f}

\* C9: for each family at most one sync is in flight at any time, whatever
\* the trigger paths of the syncs.
C9_OneSyncPerFamily ==
    \A f \in Families : Cardinality(InFlight(f)) <= 1

\* a finished unforced sync request whose version check found the target
\* current (every family, for target "all")
SkipCase(j) ==
    /\ jobs[j].pc = "done"
    /\ jobs[j].kind \in {"request", "background"}
    /\ ~jobs[j].force
    /\ jobs[j].was_current

\* C3 (as stated): an unforced sync request made when the ledger is at the
\* upstream latest version ends with status "skipped" and zero writes, on the
\* synchronous and on the background path.
C3_SkippedEverywhere ==
    \A j \in Jobs : SkipCase(j) => jobs[j].status = "skipped" /\ jobs[j].wrote = {}

\* C3 (amended): such a request performs zero writes; the synchronous
\* request ends with status "skipped", the background request was answered
\* "started" and its task ends without a result.
C3_SkipNoWrites ==
    \A j \in Jobs :
        SkipCase(j) =>
            /\ jobs[j].wrote = {}
            /\ jobs[j].kind = "request" => jobs[j].status = "skipped"
            /\ jobs[j].kind = "background" => jobs[j].status = "started"

C3_Witness ==
    \E i, j \in Jobs :
        /\ SkipCase(i) /\ jobs[i].kind = "request" /\ jobs[i].status = "skipped"
        /\ SkipCase(j) /\ jobs[j].kind = "background" /\ jobs[j].target = "all"
        /\ jobs[j].status = "started"
        /\ \A f \in Families : get_current_db_version(game_versions, f) = {latest}

\* the position of a family in the order champions, items, runes,
\* summoner-spells
FamilyRank(f) ==
    CASE f = "champions" -> 1 [] f = "items" -> 2 [] f = "runes" -> 3
      [] f = "summoner-spells" -> 4

\* C14: while a sync-all updates family g, every family it updates that
\* comes before g in the order champions, items, runes, summoner-spells has
\* been started and has finished, and no family after g has been started.
C14_SyncAllOrder ==
    \A j \in Jobs :
        (jobs[j].target = "all" /\ jobs[j].pc = "updating") =>
            LET g == Head(jobs[j].todo)
            IN  \A f \in Range(jobs[j].plan) :
                    /\ FamilyRank(f) < FamilyRank(g) =>
                          f \in jobs[j].wrote /\ f \notin Range(jobs[j].todo)
                    /\ FamilyRank(f) > FamilyRank(g) =>
                          f \notin jobs[j].wrote /\ f \in Range(jobs[j].todo)

C14_Witness ==
    \E j \in Jobs :
        /\ jobs[j].target = "all" /\ jobs[j].pc = "updating"
        /\ Head(jobs[j].todo) = "runes"
        /\ jobs[j].plan = <<"champions", "runes", "summoner-spells">>
        /\ jobs[j].wrote = {"champions", "runes"}

\* the executions of task sync_<f> that are past the running test and not over
Executions(f) ==
    {j \in Jobs : /\ jobs[j].kind \in {"scheduled", "manual"}
                  /\ jobs[j].target = f
                  /\ jobs[j].pc \in {"fetch", "check", "updating"}}

\* C17: at most one execution of a scheduled task is in progress, it is in
\* progress exactly while the running flag is set, and a trigger that found
\* the flag set returned without running the task function.
C17_OneExecutionPerTask ==
    /\ \A f \in ScheduledFamilies :
          /\ Cardinality(Executions(f)) <= 1
          /\ task_running[f] <=> Executions(f) # {}
    /\ \A j \in Jobs :
          jobs[j].status = "not_run" =>
              /\ jobs[j].pc = "done"
              /\ jobs[j].wrote = {}
              /\ jobs[j].latest_seen = NoVersion

C17_Witness ==
    \E i, j \in Jobs :
        /\ jobs[i].kind = "scheduled" /\ jobs[i].pc = "updating"
        /\ jobs[j].kind = "manual" /\ jobs[j].target = jobs[i].target
        /\ jobs[j].status = "not_run"

SyncStarted(j) == jobs[j].pc \in {"fetch", "check", "updating"}

\* C18: a task's family sync that has started reaches completion or
\* failure, also when the scheduler is stopped meanwhile or further triggers
\* arrive.
C18_NoCancellation ==
    \A j \in Jobs : SyncStarted(j) ~> (jobs[j].pc = "done")

C18_Witness ==
    \E j \in Jobs :
        /\ jobs[j].kind = "scheduled" /\ jobs[j].pc = "updating"
        /\ ~scheduler_running

\* ------------------------------------------------------------------------
\* Claims on sub-entities and snapshots
\* ------------------------------------------------------------------------
\* the runes stored under slot number n of path p in rune store T
StoredSlotRunes(T, p, n) ==
    UNION {SlotRunes(T.runes, sl.id) : sl \in FindSlot(T.slots, p, n)}

\* C28: after a rune sync that returned, the runes stored under each slot of
\* the payload are exactly the payload's runes of that slot: a rune stored
\* before and absent from the new payload is gone.
C28_AbsentRunesDeleted ==
    \A k \in 1..Len(rune_runs) :
        ~rune_runs[k].raised =>
            \A p \in RunePathIds :
                LET slot_lists == rune_data[rune_runs[k].version][p].slots
                IN  \A i \in 1..Len(slot_lists) :
                        StoredSlotRunes(rune_runs[k].after, p, i - 1) = slot_lists[i]

\* the tag names linked to champion id in store T
LinkedTags(T, id) == {l[2] : l \in {x \in T.champion_tags : x[1] = id}}

SpellRows(T, spell_id) == {sp \in T.spells : sp.id = spell_id}

\* C27: upsert is last-write-wins on every mapped field: after the upsert of
\* a document the champion row and the rows of the document's spells are the
\* rows the same upsert leaves in an empty store, whatever was stored before.
C27_LastWriteWins ==
    \A k \in 1..Len(detail_runs) :
        \A i \in 1..Len(detail_runs[k].docs) :
            LET doc == detail_runs[k].docs[i]
                fresh == ProcessChampionDoc(EmptyChampionStore, doc,
                                            detail_runs[k].version).store
                after == detail_runs[k].after
            IN  doc.id \notin detail_runs[k].failed
                    => /\ after.champions[doc.id] = fresh.champions[doc.id]
                       /\ \A n \in 1..Len(doc.spells) :
                              SpellRows(after, doc.spells[n]) = SpellRows(fresh, doc.spells[n])

\* C29: the store holds only the latest synced snapshot: after a champion
\* sync to version v in which no champion failed, the stored champions are
\* exactly the champions upstream lists at v, each with version v; none
\* remains from an earlier version.
C29_LatestSnapshotOnly ==
    \A k \in 1..Len(detail_runs) :
        detail_runs[k].failed = {}
            => /\ DOMAIN detail_runs[k].after.champions
                      = {detail_runs[k].docs[i].id : i \in 1..Len(detail_runs[k].docs)}
               /\ \A c \in DOMAIN detail_runs[k].after.champions :
                      detail_runs[k].after.champions[c].version = detail_runs[k].version

\* the ids of the spells stored for champion c in the slot spell_type
SlotSpells(T, c, spell_type) ==
    {sp.id : sp \in {x \in T.spells : x.champion_id = c /\ x.spell_type = spell_type}}

\* C30: every champion has at most one passive, at most one spell per slot
\* Q/W/E/R, at most 4 spells and at most one skin per number; and a re-sync
\* whose document has another spell id in a slot than the stored one does
\* not fail and leaves the new spell in that slot.
C30_SubEntityCardinality ==
    /\ \A c \in DOMAIN champion_store.champions :
          /\ Cardinality({p \in champion_store.passives : p.champion_id = c}) <= 1
          /\ \A n \in 1..Len(spell_types) :
                 Cardinality(SlotSpells(champion_store, c, spell_types[n])) <= 1
          /\ Cardinality({sp \in champion_store.spells : sp.champion_id = c})
                 <= Len(spell_types)
          /\ \A num \in SkinNums :
                 Cardinality({sk \in champion_store.skins :
                                 sk.champion_id = c /\ sk.skin_num = num}) <= 1
    /\ \A k \in 1..Len(detail_runs) :
          \A i \in 1..Len(detail_runs[k].docs) :
              LET doc == detail_runs[k].docs[i]
              IN  \A n \in 1..Len(doc.spells) :
                      LET old == SlotSpells(detail_runs[k].before, doc.id, spell_types[n])
                      IN  (old # {} /\ doc.spells[n] \notin old)
                              => /\ doc.id \notin detail_runs[k].failed
                                 /\ SlotSpells(detail_runs[k].after, doc.id, spell_types[n])
                                        = {doc.spells[n]}

\* ------------------------------------------------------------------------
\* Claims on tags, references and validation
\* ------------------------------------------------------------------------
\* C31: tags are deduplicated by name, also when a champion sync and an item
\* sync need the same new tag concurrently: no get_or_create_tag call raises
\* (it returns the stored tag or creates the tag on first use), and a name
\* is created by one sync only.
C31_TagsDeduplicated ==
    /\ \A f \in TagFamilies : ~tag_sync[f].failed
    /\ tag_sync["champions"].wrote \cap tag_sync["items"].wrote = {}

\* C32: after an item sync every stored required_champion is null or the id
\* of a stored champion, and a record whose requiredChampion matches no
\* stored champion does not fail: no item of update_items fails, and a
\* bulk_sync_items over stored items does not raise.
C32_RequiredChampionDegrades ==
    /\ \A i \in DOMAIN items : RequiredChampionStored(champions, items[i])
    /\ \A k \in 1..Len(item_runs) : item_runs[k].failed = {}
    /\ \A k \in 1..Len(recipe_runs) :
          DOMAIN item_data \subseteq DOMAIN recipe_runs[k].before.items
              => ~recipe_runs[k].raised

\* the stored items of the version the validator found current
CheckedItems ==
    {i \in DOMAIN validation.before.store.items :
        validation.before.store.items[i].version = validation.current}

\* the checked items of depth > 1 without a built_from edge
Componentless ==
    {i \in CheckedItems :
        /\ validation.before.store.items[i].depth > 1
        /\ built_from(validation.before.store.item_recipes, i) = {}}

LastExecution == task_log[Len(task_log)]

\* no execution is in progress: running is false, last_run is the end of a
\* successful execution (or the task never succeeded), and error is the
\* exception of the latest execution if it failed, None if it succeeded
TaskSettled ==
    /\ (\A c \in 1..Len(coros) : coros[c].pc # "running") => ~task.running
    /\ \/ task.last_run = MinTime
       \/ \E k \in 1..Len(task_log) :
             task_log[k].outcome = "success" /\ task_log[k].ended = task.last_run
    /\ (~task.running /\ task_log # <<>>)
          => task.error = IF LastExecution.outcome = "error" THEN LastExecution.coro
                          ELSE NoError

\* C34 (as stated): after an execution ends running is false, last_run is
\* advanced only by a success and error is that of the latest failure; an
\* enabled task whose execution failed is due at the next poll.
C34_FailedTaskStaysDue ==
    /\ TaskSettled
    /\ (~task.running /\ task_log # <<>> /\ LastExecution.outcome = "error")
          => should_run(task, clock)

\* C34 (amended): the same, where the failed execution is one of a task that
\* was due when the execution began (as every execution the polling loop
\* starts is): the task is still due, so the next poll executes it again.
C34_FailedDueTaskStaysDue ==
    /\ TaskSettled
    /\ (/\ ~task.running /\ task_log # <<>>
        /\ LastExecution.outcome = "error" /\ LastExecution.was_due)
          => should_run(task, clock)

\* an execution started by the polling loop failed and the next execution,
\* again started by the loop, succeeded
C34_Witness ==
    \E k \in 1..Len(task_log) :
        /\ k < Len(task_log)
        /\ task_log[k].by = "loop" /\ task_log[k].outcome = "error" /\ task_log[k].was_due
        /\ task_log[k + 1].by = "loop" /\ task_log[k + 1].outcome = "success"
        /\ task.error = NoError /\ ~task.running

\* ------------------------------------------------------------------------
\* Claims on the recipe graph of a bulk sync
\* ------------------------------------------------------------------------
\* the rows of item_recipes that touch an item outside ids
OutsideEdges(rows, ids) == {r \in rows : r.item_id \notin ids \/ r.component_id \notin ids}

\* the ledger row of the items family that is current
CurrentItemsVersions == {g.version : g \in {r \in game_versions :
                                              r.entity_type = "items" /\ r.is_current}}

\* C35: a bulk_sync_items that ends removes every stored recipe edge,
\* also those between items it was not given; the edges it leaves all join
\* two of the given items, and the ledger's current items version is the
\* version of the call.
C35_SubsetSyncClearsEdges ==
    \A k \in 1..Len(recipe_runs) :
        ~recipe_runs[k].raised =>
            /\ OutsideEdges(recipe_runs[k].final, recipe_runs[k].given) = {}
            /\ recipe_runs[k].final \subseteq FirstPass(recipe_runs[k].given, item_data)
                                            \cup {Recipe(i, c) : i \in recipe_runs[k].given,
                                                                 c \in recipe_runs[k].given}
            /\ item_recipes = recipe_runs[k].final
            /\ CurrentItemsVersions = {recipe_runs[k].version}

\* a bulk sync over part of the catalog ended and removed an edge between
\* two items it was not given
C35_Witness ==
    \E k \in 1..Len(recipe_runs) :
        /\ ~recipe_runs[k].raised
        /\ recipe_runs[k].given # DOMAIN item_data
        /\ \E r \in recipe_runs[k].before.item_recipes :
              r.item_id \notin recipe_runs[k].given
                  /\ r.component_id \notin recipe_runs[k].given
        /\ item_recipes = {}

C37_RepairPassRedundant ==
    \A k \in BulkRuns :
        /\ \A p \in recipe_runs[k].given :
              ReverseIndex(item_data, p) \cap recipe_runs[k].given
                  \subseteq built_from(recipe_runs[k].first, p)
        /\ recipe_runs[k].repaired = recipe_runs[k].first
        /\ recipe_runs[k].heuristic = {}

\* a bulk sync in which the repair loop met a mythic product that has a
\* reverse-index entry and no "from" list of its own
C37_Witness ==
    \E k \in BulkRuns : \E p \in recipe_runs[k].mythic_data :
        /\ ReverseIndex(item_data, p) # {}
        /\ item_data[p].from = <<>>
        /\ built_from(recipe_runs[k].repaired, p) = ReverseIndex(item_data, p)

\* ------------------------------------------------------------------------
\* Claims on moved runes, sync-all and the validated snapshot
\* ------------------------------------------------------------------------
\* the runes that the stored slot (path_id, slot_number) holds
RunesAt(T, path_id, slot_number) ==
    UNION {SlotRunes(T.runes, sl.id) : sl \in FindSlot(T.slots, path_id, slot_number)}

\* C38: a rune sync does not fail on a rune that the payload places in
\* another slot than the one it is stored in, and after it every rune of
\* the payload is stored in the slot where the payload places it.
C38_MovedRuneFollowsPayload ==
    \A k \in 1..Len(rune_runs) :
        LET r == rune_runs[k]
            data == rune_data[r.version]
        IN  /\ ~r.raised
            /\ \A i \in DOMAIN data : \A a \in 1..Len(data[i].slots) :
                  data[i].slots[a] \subseteq RunesAt(r.after, i, a - 1)

\* the family whose update raised and ended update_all
ItemsFailed == item_runs # <<>> /\ item_runs[1].steps = <<"fetch">>
RunesFailed == rune_runs # <<>> /\ rune_runs[1].raised

\* C39: sync-all is not atomic: update_champions and update_items each
\* commit their entities and their ledger row before the next family starts;
\* when a later family's update raises, the entities and the current ledger
\* rows of the earlier families stay and the ledger row of the family that
\* raised is as it was.
C39_SyncAllNotAtomic ==
    /\ (ItemsFailed \/ RunesFailed) =>
          /\ champions = champion_runs[1].champions
          /\ get_current_db_version(game_versions, "champions") = {latest}
    /\ ItemsFailed =>
          /\ CommittedStore = item_runs[1].before
          /\ get_current_db_version(game_versions, "items") = {NoVersion}
    /\ RunesFailed =>
          /\ CommittedStore = item_runs[1].store
          /\ get_current_db_version(game_versions, "items") = {latest}
          /\ get_current_db_version(game_versions, "runes") = rune_runs[1].current_before
          /\ CommittedRunes = rune_runs[1].before

\* update_items raised after update_champions had stored a champion
C39_Witness ==
    /\ ItemsFailed
    /\ champions # <<>>
    /\ champions # champion_runs[1].champions_before
    /\ get_current_db_version(game_versions, "champions") = {latest}
    /\ get_current_db_version(game_versions, "items") = {NoVersion}

\* the version field of the entities the validator of family f selects from,
\* by id, in the tables t
VersionedEntities(f, t) ==
    CASE f = "champions" -> [c \in DOMAIN t.champions |-> t.champions[c].version]
      [] f = "items" -> [i \in DOMAIN t.store.items |-> t.store.items[i].version]
      [] f = "runes" -> [q \in DOMAIN t.runes.paths |-> t.runes.paths[q].version]

\* the stored entities of the validated family that are not at the version
\* the validator read from the ledger
StaleEntities ==
    LET vs == VersionedEntities(validation.family, validation.before)
    IN  {e \in DOMAIN vs : vs[e] # validation.current}

\* C40: a validator checks the entities whose version is the ledger's
\* current version of the family: total_count is their number, an entity
\* left at another version is neither counted nor reported, and without a
\* current ledger entry the result is one error and total_count 0.
C40_OnlyCurrentVersionValidated ==
    (validation # NoReport /\ validation.status = "completed") =>
        LET vs == VersionedEntities(validation.family, validation.before)
        IN  IF validation.current = NoVersion
            THEN validation.total_count = 0 /\ validation.errors = 1
            ELSE /\ validation.total_count + Cardinality(StaleEntities)
                       = Cardinality(DOMAIN vs)
                 /\ validation.family = "items" =>
                       (validation.flagged \cup validation.warned) \cap StaleEntities = {}

\* a report on champions of which one was left at the version of an
\* earlier sync
C40_Witness ==
    /\ validation # NoReport
    /\ validation.status = "completed"
    /\ validation.family = "champions"
    /\ validation.current # NoVersion
    /\ StaleEntities # {}
    /\ validation.total_count > 0
    /\ validation.total_count < Cardinality(DOMAIN validation.before.champions)

====
